---- MODULE Spec2Model ----
(***************************************************************************)
(* Questionnaire / canvas tools of the AI governance agent                 *)
(* (examples/ai_governance_agent/tools/tools.py) and of the AI ideation    *)
(* agent (examples/ai_ideation_agent/tools/tools.py): the markdown         *)
(* parsers, the JSON state file, the archive written by a reset and the    *)
(* report / export gate.                                                   *)
(*                                                                         *)
(* Python dicts are functions; a dict that keeps insertion order and is    *)
(* iterated is a pair (order, map).  Optional values are sequences of      *)
(* length 0 (None) or 1.                                                   *)
(***************************************************************************)
EXTENDS Integers, Sequences, FiniteSets, TLC

VARIABLES
    agent,        \* which example's tools run: "gov" or "canvas"
    doc,          \* the questionnaire markdown, a sequence of lines
    parsed,       \* what the last parser run returned (<<>> before any)
    state_file,   \* ASSESSMENT_FILE / CANVAS_FILE: <<>> or <<content>>
    archives,     \* archive files of OUTPUT_DIR: name suffix -> content
    outputs,      \* report / export files of OUTPUT_DIR: name -> content
    now,          \* the wall clock read by datetime.now()
    result,       \* the last tool call and what it returned
    resets,       \* how many resets have written an archive
    calls,        \* how many tool calls have written a file
    replaced,     \* the answer the last call overwrote, if the call before
                  \* it had saved the same question
    pending       \* the tool calls that have loaded the state file and not
                  \* yet written it: invocation -> what it holds

vars == <<agent, doc, parsed, state_file, archives, outputs, now, result,
          resets, calls, replaced, pending>>

----------------------------------------------------------------------------
(* Bounds *)

\* the clock stops advancing here
MaxClock == 1
\* tool calls that write a file
MaxCalls == 4
\* lines of a document given to the parsers
MaxLines == 4

----------------------------------------------------------------------------
(* Python values *)

None == <<>>
Some(v) == <<v>>

\* d.setdefault(k, v): an existing key keeps its value
Put_keep(d, k, v) ==
    IF k \in DOMAIN d THEN d
    ELSE [x \in DOMAIN d \cup {k} |-> IF x = k THEN v ELSE d[x]]

\* d[k] = v
Put(d, k, v) == [x \in DOMAIN d \cup {k} |-> IF x = k THEN v ELSE d[x]]

\* d.get(k), None when the key is absent
Get(d, k) == IF k \in DOMAIN d THEN Some(d[k]) ELSE None

\* appending a key to the insertion order of a dict: an existing key keeps
\* its place
Ordered(order, k) ==
    IF \E i \in 1..Len(order) : order[i] = k THEN order ELSE Append(order, k)

\* str.lower() on the tokens that follow **Required:**
Lower(s) ==
    CASE s = "True" -> "true"
      [] s = "TRUE" -> "true"
      [] s = "False" -> "false"
      [] OTHER -> s

----------------------------------------------------------------------------
(* Lines of the markdown dialect, after line.strip().  kind is the branch  *)
(* of the startswith chain the line takes; match is whether the regular    *)
(* expression of that branch matches.                                      *)

SectionLine(num, name) ==
    [kind |-> "section", match |-> TRUE, num |-> num, name |-> name]
\* starts with "## Section" but is not "## Section <digits>: <name>"
BadSectionLine == [kind |-> "section", match |-> FALSE]
QuestionLine(id, title) ==
    [kind |-> "qheader", match |-> TRUE, id |-> id, title |-> title]
\* starts with "### Q" but is not "### Q<id> - <title>"
BadQuestionLine == [kind |-> "qheader", match |-> FALSE]
TextLine(t) == [kind |-> "question", text |-> t]
\* items: the pieces between the commas, stripped
OptionsLine(items) == [kind |-> "options", items |-> items]
TypeLine(t) == [kind |-> "type", text |-> t]
RequiredLine(t) == [kind |-> "required", text |-> t]
OtherLine == [kind |-> "other"]

----------------------------------------------------------------------------
(* The parsers.  Question dicts live in a heap, because the code stores    *)
(* the dict object itself in the section and keeps mutating it through     *)
(* current_question until current_question is rebound.                     *)

\* sections = {}, current_section = None, current_question = {}
ParserInit ==
    [order |-> <<>>, secs |-> <<>>, heap |-> <<<<>>>>,
     current_section |-> None, current_question |-> 1]

NewQuestion(line) ==
    [id |-> line.id, title |-> line.title, question |-> "",
     type |-> "text", required |-> TRUE, options |-> None]

\* if current_question and current_section: ... questions[qid] = current_question
AttachCurrent(st) ==
    LET q == st.heap[st.current_question] IN
    IF DOMAIN q # {} /\ st.current_section # None /\ "id" \in DOMAIN q
    THEN LET key == st.current_section[1]
             sec == st.secs[key]
         IN [st EXCEPT !.secs[key] =
                [sec EXCEPT !.qorder = Ordered(sec.qorder, q.id),
                            !.questions = Put(sec.questions, q.id,
                                              st.current_question)]]
    ELSE st

\* current_section = {...}; sections[f"S{section_num}"] = current_section
OpenSection(st, line) ==
    LET key == "S" \o line.num IN
    [st EXCEPT !.order = Ordered(st.order, key),
               !.secs = Put(st.secs, key,
                            [number |-> line.num, name |-> line.name,
                             qorder |-> <<>>, questions |-> <<>>]),
               !.current_section = Some(key)]

\* current_question[field] = value
SetField(st, field, value) ==
    [st EXCEPT !.heap[st.current_question] =
        Put(st.heap[st.current_question], field, value)]

\* the branches for the **Question:** / **Options:** / **Type:** /
\* **Required:** lines, the same in both parsers
FieldLine(st, line) ==
    CASE line.kind = "question" -> SetField(st, "question", line.text)
      [] line.kind = "options" ->
            SetField(SetField(st, "options", line.items), "type", "choice")
      [] line.kind = "type" -> SetField(st, "type", line.text)
      [] line.kind = "required" ->
            SetField(st, "required", Lower(line.text) = "true")
      [] OTHER -> st

\* the "### Q" branch, the same in both parsers
QuestionHeader(st, line) ==
    LET st1 == AttachCurrent(st) IN
    IF line.match
    THEN [st1 EXCEPT !.heap = Append(st1.heap, NewQuestion(line)),
                     !.current_question = Len(st1.heap) + 1]
    ELSE st1

\* one iteration of parse_questionnaire's loop
QuestionnaireLine(st, line) ==
    CASE line.kind = "section" ->
            IF line.match THEN OpenSection(st, line) ELSE st
      [] line.kind = "qheader" -> QuestionHeader(st, line)
      [] OTHER -> FieldLine(st, line)

\* one iteration of parse_canvas's loop
CanvasLine(st, line) ==
    CASE line.kind = "section" ->
            LET q == st.heap[st.current_question]
                st1 == IF DOMAIN q # {} /\ st.current_section # None
                       THEN [AttachCurrent(st) EXCEPT
                                !.heap = Append(st.heap, <<>>),
                                !.current_question = Len(st.heap) + 1]
                       ELSE st
            IN IF line.match THEN OpenSection(st1, line) ELSE st1
      [] line.kind = "qheader" -> QuestionHeader(st, line)
      [] OTHER -> FieldLine(st, line)

RECURSIVE QuestionnaireLoop(_, _)
QuestionnaireLoop(st, lines) ==
    IF lines = <<>> THEN st
    ELSE QuestionnaireLoop(QuestionnaireLine(st, Head(lines)), Tail(lines))

RECURSIVE CanvasLoop(_, _)
CanvasLoop(st, lines) ==
    IF lines = <<>> THEN st
    ELSE CanvasLoop(CanvasLine(st, Head(lines)), Tail(lines))

\* "Add last question" and return sections: the dict objects are read out
\* of the heap
Outline(st) ==
    LET fin == AttachCurrent(st) IN
    [order |-> fin.order,
     secs |-> [k \in DOMAIN fin.secs |->
                 [number |-> fin.secs[k].number,
                  name |-> fin.secs[k].name,
                  qorder |-> fin.secs[k].qorder,
                  questions |-> [q \in DOMAIN fin.secs[k].questions |->
                                   fin.heap[fin.secs[k].questions[q]]]]]]

parse_questionnaire(content) == Outline(QuestionnaireLoop(ParserInit, content))

parse_canvas(content) == Outline(CanvasLoop(ParserInit, content))

----------------------------------------------------------------------------
(* Text.  A str is a sequence of one-character strings.                    *)

\* answer[:n]
Take(s, n) == SubSeq(s, 1, IF Len(s) < n THEN Len(s) ELSE n)

\* the clock.  datetime.now() has sub-second resolution; the strftime
\* formats keep the second, the minute or the day.  A second is two ticks of
\* the model's clock, a minute two seconds, a day two minutes.
SecondOf(t) == t \div 2
MinuteOf(t) == SecondOf(t) \div 2
DayOf(t) == MinuteOf(t) \div 2

UpperCase ==
    <<"A", "B", "C", "D", "E", "F", "G", "H", "I", "J", "K", "L", "M",
      "N", "O", "P", "Q", "R", "S", "T", "U", "V", "W", "X", "Y", "Z">>

LowerCase ==
    <<"a", "b", "c", "d", "e", "f", "g", "h", "i", "j", "k", "l", "m",
      "n", "o", "p", "q", "r", "s", "t", "u", "v", "w", "x", "y", "z">>

Digits == {"0", "1", "2", "3", "4", "5", "6", "7", "8", "9"}

\* str.lower()
LowerChar(c) ==
    IF \E i \in 1..26 : UpperCase[i] = c
    THEN LowerCase[CHOOSE i \in 1..26 : UpperCase[i] = c]
    ELSE c

LowerStr(s) == [i \in 1..Len(s) |-> LowerChar(s[i])]

\* \w of the regular expressions
IsWord(c) ==
    \/ \E i \in 1..26 : c = UpperCase[i] \/ c = LowerCase[i]
    \/ c \in Digits
    \/ c = "_"

\* \s of the regular expressions
IsSpace(c) == c \in {" ", "\t", "\n"}

\* [\s-]
IsSpaceOrHyphen(c) == IsSpace(c) \/ c = "-"

\* [^\w\s-]
IsRemoved(c) == ~IsWord(c) /\ ~IsSpaceOrHyphen(c)

\* re.sub(r"[^\w\s-]", "", s)
RECURSIVE RemoveUnsafe(_)
RemoveUnsafe(s) ==
    IF s = <<>> THEN <<>>
    ELSE IF IsRemoved(Head(s)) THEN RemoveUnsafe(Tail(s))
    ELSE <<Head(s)>> \o RemoveUnsafe(Tail(s))

\* re.sub(r"[\s-]", "_", s): every character of a run becomes an underscore
RECURSIVE CollapseRuns_each(_)
CollapseRuns_each(s) ==
    IF s = <<>> THEN <<>>
    ELSE IF IsSpaceOrHyphen(Head(s))
         THEN <<"_">> \o CollapseRuns_each(Tail(s))
    ELSE <<Head(s)>> \o CollapseRuns_each(Tail(s))

\* re.sub(r"[\s-]+", "_", s): each maximal run becomes one underscore
RECURSIVE CollapseRuns(_)
CollapseRuns(s) ==
    IF s = <<>> THEN <<>>
    ELSE IF IsSpaceOrHyphen(Head(s))
         THEN IF Len(s) > 1 /\ IsSpaceOrHyphen(s[2])
              THEN CollapseRuns(Tail(s))
              ELSE <<"_">> \o CollapseRuns(Tail(s))
    ELSE <<Head(s)>> \o CollapseRuns(Tail(s))

\* the [:50] of safe_name
SafeNameLen == 50

\* safe_name of generate_assessment_report / generate_canvas_export
SafeName(use_case_name) ==
    Take(CollapseRuns(RemoveUnsafe(LowerStr(use_case_name))), SafeNameLen)

\* the [:200] of the confirmation message
ShownLen == 200

\* the message with the marker from 200 characters on
Shown_early(answer) ==
    Take(answer, ShownLen) \o
        (IF Len(answer) >= ShownLen THEN <<".", ".", ".">> ELSE <<>>)

\* f"{answer[:200]}{'...' if len(answer) > 200 else ''}"
Shown(answer) ==
    Take(answer, ShownLen) \o
        (IF Len(answer) > ShownLen THEN <<".", ".", ".">> ELSE <<>>)

\* sub in s
Contains(sub, s) ==
    \E i \in 1..(Len(s) + 1) :
        /\ i + Len(sub) - 1 <= Len(s)
        /\ SubSeq(s, i, i + Len(sub) - 1) = sub

----------------------------------------------------------------------------
(* Walking the outline in the order Python iterates the dicts.             *)

RECURSIVE Flatten(_)
Flatten(seqs) ==
    IF seqs = <<>> THEN <<>> ELSE Head(seqs) \o Flatten(Tail(seqs))

\* for section_id, section in sections.items():
\*     for qid, q in section["questions"].items():
AllQuestions(sections) ==
    Flatten([i \in 1..Len(sections.order) |->
        LET key == sections.order[i]
            sec == sections.secs[key]
        IN [j \in 1..Len(sec.qorder) |->
              [section |-> key, id |-> sec.qorder[j],
               q |-> sec.questions[sec.qorder[j]]]]])

\* the first section, in iteration order, that has the question
FindQuestion(sections, question_id) ==
    LET hits == SelectSeq(sections.order,
                    LAMBDA k : question_id \in DOMAIN sections.secs[k].questions)
    IN IF hits = <<>> THEN None ELSE Some(hits[1])

\* sum(len(s["questions"]) for s in sections.values())
TotalQuestions(sections) == Len(AllQuestions(sections))

\* the loop stopping at the first missing question
MissingRequired_first(sections, answers) ==
    LET miss == SelectSeq(AllQuestions(sections),
                    LAMBDA e : e.q.required /\ e.id \notin DOMAIN answers)
    IN IF miss = <<>> THEN <<>>
       ELSE <<[id |-> miss[1].id, title |-> miss[1].q.title]>>

\* the loop without the test of q["required"]
MissingRequired_all(sections, answers) ==
    LET miss == SelectSeq(AllQuestions(sections),
                    LAMBDA e : e.id \notin DOMAIN answers)
    IN [i \in 1..Len(miss) |-> [id |-> miss[i].id, title |-> miss[i].q.title]]

\* the loop taking an answer that str.strip() empties for no answer
MissingRequired_blank(sections, answers) ==
    LET miss == SelectSeq(AllQuestions(sections),
                    LAMBDA e : e.q.required
                               /\ (e.id \notin DOMAIN answers
                                   \/ \A i \in 1..Len(answers[e.id].answer) :
                                         IsSpace(answers[e.id].answer[i])))
    IN [i \in 1..Len(miss) |-> [id |-> miss[i].id, title |-> miss[i].q.title]]

\* the "Check required questions" loop
MissingRequired(sections, answers) ==
    LET miss == SelectSeq(AllQuestions(sections),
                    LAMBDA e : e.q.required /\ e.id \notin DOMAIN answers)
    IN [i \in 1..Len(miss) |-> [id |-> miss[i].id, title |-> miss[i].q.title]]

----------------------------------------------------------------------------
(* Inputs the tools are called with *)

QuestionIds == {"Q1.1", "Q1.2", "Q2.1", "Q9.9"}

X == <<"X">>
Y == <<"Y">>

\* (question_id, answer) of the save_answer calls; Q9.9 is in no outline
SaveInputs ==
    { <<"Q1.1", X>>, <<"Q1.1", Y>>, <<"Q1.2", X>>, <<"Q2.1", X>>,
      <<"Q9.9", X>> }

NotesInputs == {None}

\* the use_case_name argument of generate_assessment_report
UseCaseNames == {<<>>, <<"A", "i">>}

\* the use_case_name argument of start_new_canvas
CanvasNames == {<<"A", "i">>}

\* section_id.startswith("S")
StartsWithS(section_id) == section_id \in {"S1", "S2", "S9"}

\* (section_id, answers) of the save_section_answers calls: section_id as
\* the caller writes it, with or without the leading S; answers a dict, in
\* its order
SectionInputs ==
    { <<"1", <<[id |-> "Q1.1", answer |-> Y], [id |-> "Q1.2", answer |-> X]>> >>,
      <<"S2", <<>> >>,
      <<"S1", <<[id |-> "Q1.1", answer |-> X], [id |-> "Q2.1", answer |-> X]>> >>,
      <<"S2", <<[id |-> "Q9.9", answer |-> X], [id |-> "Q2.1", answer |-> X],
                [id |-> "Q1.2", answer |-> X]>> >>,
      <<"S9", <<[id |-> "Q1.1", answer |-> X]>> >> }

\* the questionnaire the tools read: S1 with a required and an optional
\* question, S2 with a required one
ToolDoc ==
    << OtherLine,
       SectionLine("1", "General"),
       QuestionLine("Q1.1", "Name"),
       TextLine("What is the use case called?"),
       QuestionLine("Q1.2", "Sponsor"),
       RequiredLine("False"),
       SectionLine("2", "Risk"),
       QuestionLine("Q2.1", "Class"),
       OptionsLine(<<"High", "Low">>) >>

\* the outlines of the tools' questionnaire, parsed once: every tool call
\* parses the same file again and gets the same outline
ToolOutline ==
    [gov |-> parse_questionnaire(ToolDoc), canvas |-> parse_canvas(ToolDoc)]

questionnaire_sections(content) ==
    IF content = ToolDoc THEN ToolOutline.gov ELSE parse_questionnaire(content)

canvas_sections(content) ==
    IF content = ToolDoc THEN ToolOutline.canvas ELSE parse_canvas(content)

----------------------------------------------------------------------------
(* The state store.  json.dumps / json.loads on a dict of str, None and    *)
(* dict values give back the dict, so a file's content is the dict.        *)

\* load_assessment()
load_assessment ==
    IF state_file # <<>> THEN state_file[1]
    ELSE [created |-> now, status |-> "in_progress",
          answers |-> <<>>, metadata |-> <<>>]

\* what save_assessment(assessment) writes to ASSESSMENT_FILE
save_assessment(assessment) == <<Put(assessment, "updated", now)>>

\* load_canvas()
load_canvas ==
    IF state_file # <<>> THEN state_file[1]
    ELSE [created |-> now, status |-> "in_progress", use_case_name |-> <<>>,
          answers |-> <<>>, metadata |-> <<>>]

\* what save_canvas(canvas) writes to CANVAS_FILE
save_canvas(canvas) == <<Put(canvas, "updated", now)>>

\* the dict save_answer stores under the question id
AnswerRecord(answer, notes) ==
    [answer |-> answer, notes |-> notes, timestamp |-> now]

----------------------------------------------------------------------------
(* Literals of the governance tools *)

Unnamed ==
    <<"U", "n", "n", "a", "m", "e", "d", " ", "A", "I", " ",
      "U", "s", "e", " ", "C", "a", "s", "e">>
NotAnsweredText ==
    <<"*", "N", "o", "t", " ", "a", "n", "s", "w", "e", "r", "e", "d", "*">>
NotSpecified ==
    <<"N", "o", "t", " ", "s", "p", "e", "c", "i", "f", "i", "e", "d">>
HighRisk == <<"H", "i", "g", "h", " ", "R", "i", "s", "k">>
Unacceptable ==
    <<"U", "n", "a", "c", "c", "e", "p", "t", "a", "b", "l", "e">>
Yes == <<"Y", "e", "s">>
Not == <<"N", "o", "t">>
Uncertain == <<"U", "n", "c", "e", "r", "t", "a", "i", "n">>

\* answers.get(qid, {}).get("answer", default)
AnswerOr(answers, qid, default) ==
    IF qid \in DOMAIN answers THEN answers[qid].answer ELSE default

\* the "Add each section" loop of the report
ReportBody(sections, answers) ==
    [i \in 1..Len(sections.order) |->
        LET sec == sections.secs[sections.order[i]] IN
        [name |-> sec.name,
         entries |-> [j \in 1..Len(sec.qorder) |->
            LET qid == sec.qorder[j]
                q == sec.questions[qid]
            IN [title |-> q.title, question |-> q.question,
                answer |-> AnswerOr(answers, qid, NotAnsweredText),
                notes |-> IF qid \in DOMAIN answers
                             /\ answers[qid].notes # None
                             /\ answers[qid].notes[1] # <<>>
                          THEN answers[qid].notes ELSE None]]]]

\* the warning lines with the report's "*Not answered*" standing for a
\* missing answer
RiskLines_default(answers) ==
    LET ai_classification == AnswerOr(answers, "Q4.1", NotAnsweredText)
        personal_data == AnswerOr(answers, "Q3.1", NotAnsweredText)
        special_category == AnswerOr(answers, "Q3.2", NotAnsweredText)
        dpia_status == AnswerOr(answers, "Q3.8", NotAnsweredText)
        ethical_review == AnswerOr(answers, "Q5.8", NotAnsweredText)
    IN (IF Contains(HighRisk, ai_classification)
           \/ Contains(Unacceptable, ai_classification)
        THEN <<"EU AI Act">> ELSE <<>>)
       \o (IF Contains(Yes, personal_data)
           THEN <<"Data Privacy">> ELSE <<>>)
       \o (IF Contains(Yes, special_category)
           THEN <<"Special Category Data">> ELSE <<>>)
       \o (IF Contains(Not, dpia_status) \/ Contains(Uncertain, dpia_status)
           THEN <<"DPIA">> ELSE <<>>)
       \o (IF Contains(Not, ethical_review) THEN <<"Ethics">> ELSE <<>>)

\* "Analyze key risk indicators": the warning lines, in the order written
RiskLines(answers) ==
    LET ai_classification == AnswerOr(answers, "Q4.1", <<>>)
        personal_data == AnswerOr(answers, "Q3.1", <<>>)
        special_category == AnswerOr(answers, "Q3.2", <<>>)
        dpia_status == AnswerOr(answers, "Q3.8", <<>>)
        ethical_review == AnswerOr(answers, "Q5.8", <<>>)
    IN (IF Contains(HighRisk, ai_classification)
           \/ Contains(Unacceptable, ai_classification)
        THEN <<"EU AI Act">> ELSE <<>>)
       \o (IF Contains(Yes, personal_data)
           THEN <<"Data Privacy">> ELSE <<>>)
       \o (IF Contains(Yes, special_category)
           THEN <<"Special Category Data">> ELSE <<>>)
       \o (IF Contains(Not, dpia_status) \/ Contains(Uncertain, dpia_status)
           THEN <<"DPIA">> ELSE <<>>)
       \o (IF Contains(Not, ethical_review) THEN <<"Ethics">> ELSE <<>>)

----------------------------------------------------------------------------
(* Tools of the governance agent.  A handler reads the clock once.         *)

\* the call before this one was a save_answer that stored question_id
SavedBefore(question_id) ==
    /\ result.op = "save_answer"
    /\ result.kind = "saved"
    /\ result.question_id = question_id

\* the answer text a save of question_id overwrites right after a save of
\* the same question
Replaced(state, question_id) ==
    IF SavedBefore(question_id) /\ question_id \in DOMAIN state.answers
    THEN Some(state.answers[question_id].answer) ELSE None

\* get_question(question_id), governance
gov_get_question(question_id) ==
    LET sections == questionnaire_sections(doc)
        assessment == load_assessment
        found == FindQuestion(sections, question_id)
    IN /\ agent = "gov"
       /\ result' =
            IF found = None
            THEN [op |-> "get_question", kind |-> "not_found",
                  question_id |-> question_id]
            ELSE LET section == sections.secs[found[1]]
                     q == section.questions[question_id]
                 IN [op |-> "get_question", kind |-> "question",
                     question_id |-> question_id, title |-> q.title,
                     section |-> section.name, required |-> q.required,
                     question |-> q.question, options |-> q.options,
                     current_answer |-> Get(assessment.answers, question_id)]
       /\ replaced' = None
       /\ UNCHANGED <<agent, doc, parsed, state_file, archives, outputs, now,
                      resets, calls, pending>>

\* save_answer without the "Validate question exists" step
gov_save_answer_unchecked(question_id, answer, notes) ==
    LET assessment == load_assessment
        saved == [assessment EXCEPT !.answers =
                     Put(assessment.answers, question_id,
                         AnswerRecord(answer, notes))]
    IN /\ agent = "gov"
       /\ calls < MaxCalls /\ calls' = calls + 1
       /\ state_file' = save_assessment(saved)
       /\ replaced' = Replaced(assessment, question_id)
       /\ result' = [op |-> "save_answer", kind |-> "saved",
                     question_id |-> question_id,
                     args |-> [answer |-> answer, notes |-> notes]]
       /\ UNCHANGED <<agent, doc, parsed, archives, outputs, now, resets,
                      pending>>

\* save_answer putting the assessment back to "in_progress"
gov_save_answer_reopen(question_id, answer, notes) ==
    LET sections == questionnaire_sections(doc)
        assessment == load_assessment
        found == FindQuestion(sections, question_id)
    IN /\ agent = "gov"
       /\ IF found = None
          THEN /\ result' = [op |-> "save_answer", kind |-> "not_found",
                             question_id |-> question_id]
               /\ replaced' = None
               /\ UNCHANGED <<state_file, calls>>
          ELSE LET section == sections.secs[found[1]]
                   saved == [assessment EXCEPT
                                !.answers = Put(assessment.answers, question_id,
                                                AnswerRecord(answer, notes)),
                                !.status = "in_progress"]
               IN /\ calls < MaxCalls /\ calls' = calls + 1
                  /\ state_file' = save_assessment(saved)
                  /\ replaced' = Replaced(assessment, question_id)
                  /\ result' =
                        [op |-> "save_answer", kind |-> "saved",
                         question_id |-> question_id,
                         args |-> [answer |-> answer, notes |-> notes],
                         title |-> section.questions[question_id].title,
                         section |-> section.name,
                         answer |-> Shown(answer),
                         answered_count |-> Cardinality(DOMAIN saved.answers),
                         total_questions |-> TotalQuestions(sections)]
       /\ UNCHANGED <<agent, doc, parsed, archives, outputs, now, resets,
                      pending>>

\* save_answer(question_id, answer, notes), governance
gov_save_answer(question_id, answer, notes) ==
    LET sections == questionnaire_sections(doc)
        assessment == load_assessment
        found == FindQuestion(sections, question_id)
    IN /\ agent = "gov"
       /\ IF found = None
          THEN /\ result' = [op |-> "save_answer", kind |-> "not_found",
                             question_id |-> question_id]
               /\ replaced' = None
               /\ UNCHANGED <<state_file, calls>>
          ELSE LET section == sections.secs[found[1]]
                   saved == [assessment EXCEPT !.answers =
                                Put(assessment.answers, question_id,
                                    AnswerRecord(answer, notes))]
               IN /\ calls < MaxCalls /\ calls' = calls + 1
                  /\ state_file' = save_assessment(saved)
                  /\ replaced' = Replaced(assessment, question_id)
                  /\ result' =
                        [op |-> "save_answer", kind |-> "saved",
                         question_id |-> question_id,
                         args |-> [answer |-> answer, notes |-> notes],
                         title |-> section.questions[question_id].title,
                         section |-> section.name,
                         answer |-> Shown(answer),
                         answered_count |-> Cardinality(DOMAIN saved.answers),
                         total_questions |-> TotalQuestions(sections)]
       /\ UNCHANGED <<agent, doc, parsed, archives, outputs, now, resets,
                      pending>>

\* generate_assessment_report(use_case_name, assessor_name)
generate_assessment_report(use_case_name, assessor_name) ==
    LET sections == questionnaire_sections(doc)
        assessment == load_assessment
        answers == assessment.answers
        missing_required == MissingRequired(sections, answers)
        name == IF use_case_name = None \/ use_case_name[1] = <<>>
                THEN AnswerOr(answers, "Q1.1", Unnamed)
                ELSE use_case_name[1]
        report == [use_case |-> name,
                   assessment_date |-> MinuteOf(now),
                   assessor |-> IF assessor_name = None
                                   \/ assessor_name[1] = <<>>
                                THEN NotSpecified ELSE assessor_name[1],
                   sections |-> ReportBody(sections, answers),
                   risks |-> RiskLines(answers)]
        report_filename == [prefix |-> "assessment",
                            safe_name |-> SafeName(name),
                            date |-> DayOf(now), ext |-> "md"]
    IN /\ agent = "gov"
       /\ IF missing_required # <<>>
          THEN /\ result' = [op |-> "generate_assessment_report",
                             kind |-> "cannot_generate",
                             missing |-> missing_required]
               /\ UNCHANGED <<state_file, outputs, calls>>
          ELSE /\ calls < MaxCalls /\ calls' = calls + 1
               /\ outputs' = Put(outputs, report_filename, report)
               /\ state_file' = save_assessment(
                      Put(Put(assessment, "status", "completed"),
                          "report_file", report_filename))
               /\ result' = [op |-> "generate_assessment_report",
                             kind |-> "generated",
                             file |-> report_filename, use_case |-> name]
       /\ replaced' = None
       /\ UNCHANGED <<agent, doc, parsed, archives, now, resets, pending>>

\* start_new_assessment archiving after it has installed the new state
start_new_assessment_late ==
    LET archiving == state_file # <<>>
                     /\ DOMAIN load_assessment.answers # {}
        new_assessment == [created |-> now, status |-> "in_progress",
                           answers |-> <<>>, metadata |-> <<>>]
    IN /\ agent = "gov"
       /\ calls < MaxCalls /\ calls' = calls + 1
       /\ IF archiving
          THEN /\ archives' = Put(archives, SecondOf(now),
                                  save_assessment(new_assessment)[1])
               /\ resets' = resets + 1
          ELSE UNCHANGED <<archives, resets>>
       /\ state_file' = save_assessment(new_assessment)
       /\ result' = [op |-> "start_new_assessment", kind |-> "started"]
       /\ replaced' = None
       /\ UNCHANGED <<agent, doc, parsed, outputs, now, pending>>

\* start_new_assessment()
start_new_assessment ==
    LET archiving == state_file # <<>>
                     /\ DOMAIN load_assessment.answers # {}
        new_assessment == [created |-> now, status |-> "in_progress",
                           answers |-> <<>>, metadata |-> <<>>]
    IN /\ agent = "gov"
       /\ calls < MaxCalls /\ calls' = calls + 1
       /\ IF archiving
          THEN /\ archives' = Put(archives, SecondOf(now), load_assessment)
               /\ resets' = resets + 1
          ELSE UNCHANGED <<archives, resets>>
       /\ state_file' = save_assessment(new_assessment)
       /\ result' = [op |-> "start_new_assessment", kind |-> "started"]
       /\ replaced' = None
       /\ UNCHANGED <<agent, doc, parsed, outputs, now, pending>>

----------------------------------------------------------------------------
(* Tools of the ideation agent *)

NotApplicable == <<"N", "/", "A">>
High == <<"H", "i", "g", "h">>
AiUseCase == <<"a", "i", "-", "u", "s", "e", "-", "c", "a", "s", "e">>

\* sum(... if q["required"])
RequiredTotal(sections) ==
    Len(SelectSeq(AllQuestions(sections), LAMBDA e : e.q.required))

\* sum(... if q["required"] and qid in canvas["answers"])
RequiredAnswered(sections, answers) ==
    Len(SelectSeq(AllQuestions(sections),
                  LAMBDA e : e.q.required /\ e.id \in DOMAIN answers))

\* start_new_canvas archiving every existing canvas, answered or not
start_new_canvas_always(use_case_name) ==
    LET archiving == state_file # <<>>
        new_canvas == [created |-> now, status |-> "in_progress",
                       use_case_name |-> use_case_name,
                       answers |-> <<>>, metadata |-> <<>>]
    IN /\ agent = "canvas"
       /\ calls < MaxCalls /\ calls' = calls + 1
       /\ IF archiving
          THEN /\ archives' = Put(archives, SecondOf(now), load_canvas)
               /\ resets' = resets + 1
          ELSE UNCHANGED <<archives, resets>>
       /\ state_file' = save_canvas(new_canvas)
       /\ result' = [op |-> "start_new_canvas", kind |-> "started",
                     use_case |-> use_case_name]
       /\ replaced' = None
       /\ UNCHANGED <<agent, doc, parsed, outputs, now, pending>>

\* start_new_canvas(use_case_name)
start_new_canvas(use_case_name) ==
    LET archiving == state_file # <<>> /\ DOMAIN load_canvas.answers # {}
        new_canvas == [created |-> now, status |-> "in_progress",
                       use_case_name |-> use_case_name,
                       answers |-> <<>>, metadata |-> <<>>]
    IN /\ agent = "canvas"
       /\ calls < MaxCalls /\ calls' = calls + 1
       /\ IF archiving
          THEN /\ archives' = Put(archives, SecondOf(now), load_canvas)
               /\ resets' = resets + 1
          ELSE UNCHANGED <<archives, resets>>
       /\ state_file' = save_canvas(new_canvas)
       /\ result' = [op |-> "start_new_canvas", kind |-> "started",
                     use_case |-> use_case_name]
       /\ replaced' = None
       /\ UNCHANGED <<agent, doc, parsed, outputs, now, pending>>

\* get_question(question_id), ideation
canvas_get_question(question_id) ==
    LET sections == canvas_sections(doc)
        canvas == load_canvas
        found == FindQuestion(sections, question_id)
    IN /\ agent = "canvas"
       /\ result' =
            IF found = None
            THEN [op |-> "get_question", kind |-> "not_found",
                  question_id |-> question_id]
            ELSE LET section == sections.secs[found[1]]
                     q == section.questions[question_id]
                     current_answer ==
                        IF question_id \in DOMAIN canvas.answers
                        THEN Some(canvas.answers[question_id].answer)
                        ELSE None
                 IN [op |-> "get_question", kind |-> "question",
                     question_id |-> question_id, title |-> q.title,
                     section |-> section.name, required |-> q.required,
                     question |-> q.question, options |-> q.options,
                     \* if current_answer: ... else: "*Not yet answered*"
                     current_answer |->
                        IF current_answer # None /\ current_answer[1] # <<>>
                        THEN current_answer ELSE None]
       /\ replaced' = None
       /\ UNCHANGED <<agent, doc, parsed, state_file, archives, outputs, now,
                      resets, calls, pending>>

\* save_answer writing the canvas file before it validates the question
canvas_save_answer_touch(question_id, answer, notes) ==
    LET sections == canvas_sections(doc)
        canvas == load_canvas
        found == FindQuestion(sections, question_id)
        saved == IF found = None THEN canvas
                 ELSE [canvas EXCEPT !.answers =
                          Put(canvas.answers, question_id,
                              AnswerRecord(answer, notes))]
    IN /\ agent = "canvas"
       /\ calls < MaxCalls /\ calls' = calls + 1
       /\ state_file' = save_canvas(saved)
       /\ replaced' = IF found = None THEN None
                      ELSE Replaced(canvas, question_id)
       /\ result' = [op |-> "save_answer",
                     kind |-> IF found = None THEN "not_found" ELSE "saved",
                     question_id |-> question_id,
                     args |-> [answer |-> answer, notes |-> notes]]
       /\ UNCHANGED <<agent, doc, parsed, archives, outputs, now, resets,
                      pending>>

\* save_answer(question_id, answer, notes), ideation
canvas_save_answer(question_id, answer, notes) ==
    LET sections == canvas_sections(doc)
        canvas == load_canvas
        found == FindQuestion(sections, question_id)
    IN /\ agent = "canvas"
       /\ IF found = None
          THEN /\ result' = [op |-> "save_answer", kind |-> "not_found",
                             question_id |-> question_id]
               /\ replaced' = None
               /\ UNCHANGED <<state_file, calls>>
          ELSE LET section == sections.secs[found[1]]
                   saved == [canvas EXCEPT !.answers =
                                Put(canvas.answers, question_id,
                                    AnswerRecord(answer, notes))]
               IN /\ calls < MaxCalls /\ calls' = calls + 1
                  /\ state_file' = save_canvas(saved)
                  /\ replaced' = Replaced(canvas, question_id)
                  /\ result' =
                        [op |-> "save_answer", kind |-> "saved",
                         question_id |-> question_id,
                         args |-> [answer |-> answer, notes |-> notes],
                         title |-> section.questions[question_id].title,
                         section |-> section.name,
                         answer |-> Shown(answer),
                         answered_count |-> Cardinality(DOMAIN saved.answers),
                         total_questions |-> TotalQuestions(sections),
                         required_answered |->
                            RequiredAnswered(sections, saved.answers),
                         required_total |-> RequiredTotal(sections)]
       /\ UNCHANGED <<agent, doc, parsed, archives, outputs, now, resets,
                      pending>>

\* the [:50] of the lines save_section_answers lists
SavedLineLen == 50

RECURSIVE PutAll(_, _)
\* the "Save all answers" loop
PutAll(answers, batch) ==
    IF batch = <<>> THEN answers
    ELSE PutAll(Put(answers, Head(batch).id,
                    AnswerRecord(Head(batch).answer, None)),
                Tail(batch))

\* "Validate all question IDs": the ids of the batch that are not
\* questions of the section, in the batch's order
InvalidIds(section, batch) ==
    LET valid_questions == DOMAIN section.questions IN
    SelectSeq([i \in 1..Len(batch) |-> batch[i].id],
              LAMBDA qid : qid \notin valid_questions)

\* save_section_answers storing the valid answers of a rejected batch
save_section_answers_partial(section_id, batch) ==
    LET normalized == IF StartsWithS(section_id) THEN section_id
                      ELSE "S" \o section_id
        sections == canvas_sections(doc)
        canvas == load_canvas
        args == [section_id |-> section_id, answers |-> batch]
    IN /\ agent = "canvas"
       /\ IF normalized \notin DOMAIN sections.secs
          THEN /\ result' = [op |-> "save_section_answers",
                             kind |-> "section_not_found",
                             section_id |-> normalized, args |-> args]
               /\ UNCHANGED <<state_file, calls>>
          ELSE LET section == sections.secs[normalized]
                   invalid_ids == InvalidIds(section, batch)
                   valid == SelectSeq(batch,
                               LAMBDA e : e.id \in DOMAIN section.questions)
                   saved == [canvas EXCEPT !.answers =
                                PutAll(canvas.answers, valid)]
               IN /\ calls < MaxCalls /\ calls' = calls + 1
                  /\ state_file' = save_canvas(saved)
                  /\ result' =
                        IF invalid_ids # <<>>
                        THEN [op |-> "save_section_answers",
                              kind |-> "invalid_ids",
                              section_id |-> normalized,
                              invalid_ids |-> invalid_ids,
                              valid_ids |-> DOMAIN section.questions,
                              args |-> args]
                        ELSE [op |-> "save_section_answers", kind |-> "saved",
                              section_id |-> normalized, args |-> args]
       /\ replaced' = None
       /\ UNCHANGED <<agent, doc, parsed, archives, outputs, now, resets,
                      pending>>

\* save_section_answers(section_id, answers)
save_section_answers(section_id, batch) ==
    LET normalized == IF StartsWithS(section_id) THEN section_id
                      ELSE "S" \o section_id
        sections == canvas_sections(doc)
        canvas == load_canvas
        args == [section_id |-> section_id, answers |-> batch]
    IN /\ agent = "canvas"
       /\ IF normalized \notin DOMAIN sections.secs
          THEN /\ result' = [op |-> "save_section_answers",
                             kind |-> "section_not_found",
                             section_id |-> normalized, args |-> args]
               /\ UNCHANGED <<state_file, calls>>
          ELSE LET section == sections.secs[normalized]
                   invalid_ids == InvalidIds(section, batch)
                   saved == [canvas EXCEPT !.answers =
                                PutAll(canvas.answers, batch)]
               IN IF invalid_ids # <<>>
                  THEN /\ result' = [op |-> "save_section_answers",
                                     kind |-> "invalid_ids",
                                     section_id |-> normalized,
                                     invalid_ids |-> invalid_ids,
                                     valid_ids |-> DOMAIN section.questions,
                                     args |-> args]
                       /\ UNCHANGED <<state_file, calls>>
                  ELSE /\ calls < MaxCalls /\ calls' = calls + 1
                       /\ state_file' = save_canvas(saved)
                       /\ result' =
                            [op |-> "save_section_answers", kind |-> "saved",
                             section_id |-> normalized, args |-> args,
                             section |-> section.number,
                             name |-> section.name,
                             saved |-> [i \in 1..Len(batch) |->
                                [id |-> batch[i].id,
                                 title |-> section.questions[batch[i].id].title,
                                 answer |->
                                    Take(batch[i].answer, SavedLineLen) \o
                                    (IF Len(batch[i].answer) > SavedLineLen
                                     THEN <<".", ".", ".">> ELSE <<>>)]],
                             answered_count |->
                                Cardinality(DOMAIN saved.answers),
                             total_questions |-> TotalQuestions(sections),
                             required_answered |->
                                RequiredAnswered(sections, saved.answers),
                             required_total |-> RequiredTotal(sections)]
       /\ replaced' = None
       /\ UNCHANGED <<agent, doc, parsed, archives, outputs, now, resets,
                      pending>>

\* str.replace(" ", "-")
SpacesToHyphens(s) == [i \in 1..Len(s) |-> IF s[i] = " " THEN "-" ELSE s[i]]

\* the [:20] of the business unit label
LabelLen == 20

\* the markdown export's section loop
CanvasBody(sections, answers) ==
    [i \in 1..Len(sections.order) |->
        LET sec == sections.secs[sections.order[i]] IN
        [name |-> sec.name,
         entries |-> [j \in 1..Len(sec.qorder) |->
            LET qid == sec.qorder[j] IN
            [title |-> sec.questions[qid].title,
             answer |-> AnswerOr(answers, qid, NotAnsweredText),
             notes |-> IF qid \in DOMAIN answers
                          /\ answers[qid].notes # None
                          /\ answers[qid].notes[1] # <<>>
                       THEN answers[qid].notes ELSE None]]]]

\* "Add compliance summary"
ExportFlags(answers) ==
    (IF AnswerOr(answers, "Q6.1", <<>>) \in {Yes, Uncertain}
     THEN <<[flag |-> "Personal data involved", detail |-> <<>>]>>
     ELSE <<>>)
    \o (IF AnswerOr(answers, "Q6.2", <<>>) = Yes
        THEN <<[flag |-> "Special category data", detail |-> <<>>]>>
        ELSE <<>>)
    \o (IF AnswerOr(answers, "Q8.1", <<>>) \in {High, Unacceptable}
        THEN <<[flag |-> "EU AI Act",
                detail |-> AnswerOr(answers, "Q8.1", <<>>)]>>
        ELSE <<>>)

\* the answers the Jira description quotes, in the order it quotes them
JiraQuoted ==
    <<"Q2.1", "Q2.2", "Q2.3", "Q1.1", "Q1.2", "Q1.3", "Q1.4",
      "Q3.1", "Q3.2", "Q3.3", "Q3.4", "Q4.1", "Q4.2", "Q4.4",
      "Q5.1", "Q5.2", "Q5.4", "Q6.1", "Q7.1", "Q8.1", "Q8.2",
      "Q9.3", "Q9.1">>

JiraDescription(answers) ==
    [i \in 1..Len(JiraQuoted) |->
        AnswerOr(answers, JiraQuoted[i], NotApplicable)]

\* "Build labels"
JiraLabels(answers) ==
    LET idea_type == SpacesToHyphens(LowerStr(AnswerOr(answers, "Q4.1", <<>>)))
        business_unit ==
            Take(SpacesToHyphens(LowerStr(AnswerOr(answers, "Q4.2", <<>>))),
                 LabelLen)
        innovation == LowerStr(AnswerOr(answers, "Q4.4", <<>>))
    IN <<AiUseCase>>
       \o (IF idea_type # <<>> THEN <<idea_type>> ELSE <<>>)
       \o (IF business_unit # <<>> THEN <<business_unit>> ELSE <<>>)
       \o (IF innovation # <<>> THEN <<innovation>> ELSE <<>>)

\* generate_canvas_export(project_key)
generate_canvas_export(project_key) ==
    LET sections == canvas_sections(doc)
        canvas == load_canvas
        answers == canvas.answers
        missing_required == MissingRequired(sections, answers)
        use_case_name == IF "use_case_name" \in DOMAIN canvas
                         THEN canvas.use_case_name ELSE Unnamed
        compliance_flags == ExportFlags(answers)
        md_export == [use_case |-> use_case_name,
                      generated |-> MinuteOf(now),
                      sections |-> CanvasBody(sections, answers),
                      compliance_flags |-> compliance_flags]
        jira_epic == [project |-> project_key,
                      issuetype |-> "Epic",
                      summary |-> use_case_name,
                      description |-> JiraDescription(answers),
                      labels |-> JiraLabels(answers),
                      generated |-> MinuteOf(now),
                      use_case_name |-> use_case_name,
                      total_questions_answered |->
                          Cardinality(DOMAIN answers),
                      compliance_flags |-> compliance_flags]
        md_filename == [prefix |-> "canvas",
                        safe_name |-> SafeName(use_case_name),
                        date |-> DayOf(now), ext |-> "md"]
        json_filename == [prefix |-> "jira_epic",
                          safe_name |-> SafeName(use_case_name),
                          date |-> DayOf(now), ext |-> "json"]
    IN /\ agent = "canvas"
       /\ IF missing_required # <<>>
          THEN /\ result' = [op |-> "generate_canvas_export",
                             kind |-> "cannot_generate",
                             missing |-> missing_required]
               /\ UNCHANGED <<state_file, outputs, calls>>
          ELSE /\ calls < MaxCalls /\ calls' = calls + 1
               /\ outputs' = Put(Put(outputs, md_filename, md_export),
                                 json_filename, jira_epic)
               /\ state_file' = save_canvas(
                      Put(Put(canvas, "status", "completed"),
                          "export_files",
                          [markdown |-> md_filename,
                           jira_json |-> json_filename]))
               /\ result' = [op |-> "generate_canvas_export",
                             kind |-> "generated",
                             markdown |-> md_filename,
                             jira_json |-> json_filename,
                             use_case |-> use_case_name,
                             compliance_flags |-> Len(compliance_flags),
                             questions_answered |->
                                 Cardinality(DOMAIN answers)]
       /\ replaced' = None
       /\ UNCHANGED <<agent, doc, parsed, archives, now, resets, pending>>

----------------------------------------------------------------------------
(* The clock and the parser runs *)

\* time passes between two tool calls
Tick ==
    /\ now < MaxClock
    /\ now' = now + 1
    /\ UNCHANGED <<agent, doc, parsed, state_file, archives, outputs, result,
                   resets, calls, replaced, pending>>

\* a run of parse_questionnaire() on the document
ParseQuestionnaire ==
    /\ parsed' = Some([parser |-> "parse_questionnaire",
                       sections |-> parse_questionnaire(doc)])
    /\ parsed' # parsed
    /\ UNCHANGED <<agent, doc, state_file, archives, outputs, now, result,
                   resets, calls, replaced, pending>>

\* a run of parse_canvas() on the document
ParseCanvas ==
    /\ parsed' = Some([parser |-> "parse_canvas",
                       sections |-> parse_canvas(doc)])
    /\ parsed' # parsed
    /\ UNCHANGED <<agent, doc, state_file, archives, outputs, now, result,
                   resets, calls, replaced, pending>>

----------------------------------------------------------------------------
(* Specifications *)

\* OUTPUT_DIR holds no state file, no archive and no report
InitFiles ==
    /\ parsed = None
    /\ state_file = <<>>
    /\ archives = <<>>
    /\ outputs = <<>>
    /\ now = 0
    /\ result = [op |-> "none", kind |-> "none"]
    /\ resets = 0
    /\ calls = 0
    /\ replaced = None
    /\ pending = <<>>

Init ==
    /\ agent \in {"gov", "canvas"}
    /\ doc = ToolDoc
    /\ InitFiles

Next ==
    \/ \E q \in QuestionIds : gov_get_question(q)
    \/ \E i \in SaveInputs, n \in NotesInputs :
          gov_save_answer(i[1], i[2], n)
    \/ \E u \in {None} \cup {Some(x) : x \in UseCaseNames} :
          generate_assessment_report(u, None)
    \/ start_new_assessment
    \/ \E u \in CanvasNames : start_new_canvas(u)
    \/ \E q \in QuestionIds : canvas_get_question(q)
    \/ \E i \in SaveInputs, n \in NotesInputs :
          canvas_save_answer(i[1], i[2], n)
    \/ \E i \in SectionInputs : save_section_answers(i[1], i[2])
    \/ generate_canvas_export("AIUC")
    \/ Tick

Spec == Init /\ [][Next]_vars

\* the lines the parsers are tried on
Lines ==
    { SectionLine("1", "General"), SectionLine("2", "Risk"), BadSectionLine,
      QuestionLine("Q1.1", "Name"), QuestionLine("Q2.1", "Class"),
      BadQuestionLine, RequiredLine("false"), OptionsLine(<<"High", "Low">>),
      TypeLine("text") }

Documents == UNION {[1..n -> Lines] : n \in 0..MaxLines}

ParseInit ==
    /\ agent \in {"gov", "canvas"}
    /\ doc \in Documents
    /\ InitFiles

ParseNext ==
    \/ agent = "gov" /\ ParseQuestionnaire
    \/ agent = "canvas" /\ ParseCanvas

ParseSpec == ParseInit /\ [][ParseNext]_vars

----------------------------------------------------------------------------
(* Properties *)

\* the outline the tools of the running agent work with
Sections ==
    IF agent = "gov" THEN questionnaire_sections(doc) ELSE canvas_sections(doc)

OutlineIds ==
    UNION {DOMAIN Sections.secs[s].questions : s \in DOMAIN Sections.secs}

RequiredIds ==
    UNION {{q \in DOMAIN Sections.secs[s].questions :
               Sections.secs[s].questions[q].required} :
           s \in DOMAIN Sections.secs}

\* the answers of the persisted state, none when there is no state file
Answers == IF state_file = <<>> THEN <<>> ELSE state_file[1].answers

\* the step is a call of the tool: every call sets result, only Tick
\* changes the clock
Called(op) == result'.op = op /\ now' = now

GenerateOps == {"generate_assessment_report", "generate_canvas_export"}

\* C1: a report / export generation called while a required question is not
\* a key of answers returns the "Cannot generate" result that lists exactly
\* the missing required questions, each once, writes no output file and
\* leaves the state file and the archives as they were
C1_FailsClosed ==
    [][ (\E op \in GenerateOps : Called(op))
        /\ RequiredIds \ DOMAIN Answers # {}
        => /\ result'.kind = "cannot_generate"
           /\ {result'.missing[i].id : i \in 1..Len(result'.missing)}
                 = RequiredIds \ DOMAIN Answers
           /\ Len(result'.missing) = Cardinality(RequiredIds \ DOMAIN Answers)
           /\ state_file' = state_file
           /\ outputs' = outputs
           /\ archives' = archives ]_vars

\* the governance report was refused with both required questions missing
\* while the optional one is answered
C1_Witness ==
    /\ agent = "gov"
    /\ result.op = "generate_assessment_report"
    /\ result.kind = "cannot_generate"
    /\ Len(result.missing) = 2
    /\ DOMAIN Answers = {"Q1.2"}

\* C2: a generation succeeds exactly when no required question is missing
\* from answers; on success the documents are in the output directory, the
\* persisted state has status "completed", records the file names of the
\* documents and keeps the answers
C2_SucceedsIff ==
    [][ (\E op \in GenerateOps : Called(op))
        => /\ (result'.kind = "generated") <=> (RequiredIds \ DOMAIN Answers = {})
           /\ result'.kind = "generated" =>
                /\ state_file' # <<>>
                /\ state_file'[1].status = "completed"
                /\ state_file'[1].answers = Answers
                /\ state_file'[1].updated = now
                /\ IF agent = "gov"
                   THEN /\ "report_file" \in DOMAIN state_file'[1]
                        /\ state_file'[1].report_file = result'.file
                        /\ result'.file \in DOMAIN outputs'
                        /\ outputs'[result'.file].use_case = result'.use_case
                   ELSE /\ "export_files" \in DOMAIN state_file'[1]
                        /\ state_file'[1].export_files =
                              [markdown |-> result'.markdown,
                               jira_json |-> result'.jira_json]
                        /\ {result'.markdown, result'.jira_json}
                              \subseteq DOMAIN outputs'
                        /\ result'.markdown # result'.jira_json
                        /\ outputs'[result'.markdown].use_case
                              = result'.use_case ]_vars

\* the canvas export succeeded with the optional question unanswered
C2_Witness ==
    /\ agent = "canvas"
    /\ result.op = "generate_canvas_export"
    /\ result.kind = "generated"
    /\ state_file[1].status = "completed"
    /\ DOMAIN Answers = {"Q1.1", "Q2.1"}
    /\ Cardinality(DOMAIN outputs) = 2

\* C3: every key of the persisted answers is a question id of the outline
C3_AnswersInOutline == DOMAIN Answers \subseteq OutlineIds

\* every question is answered and a save of an unknown id was just rejected
C3_Witness ==
    /\ result.op = "save_answer"
    /\ result.kind = "not_found"
    /\ DOMAIN Answers = OutlineIds

\* C4: save_answer with an id that is in no section returns the not-found
\* error and changes no file (a missing state file stays missing);
\* get_question with such an id returns the not-found error
C4_UnknownQuestion ==
    [][ (Called("save_answer") \/ Called("get_question"))
        /\ result'.question_id \notin OutlineIds
        => /\ result'.kind = "not_found"
           /\ state_file' = state_file
           /\ outputs' = outputs
           /\ archives' = archives ]_vars

\* the canvas save of an unknown id was rejected and there is still no
\* state file
C4_Witness ==
    /\ agent = "canvas"
    /\ result.op = "save_answer"
    /\ result.kind = "not_found"
    /\ result.question_id \notin OutlineIds
    /\ state_file = <<>>


ResetOps == {"start_new_assessment", "start_new_canvas"}

\* a call that changes no file
FilesUnchanged ==
    /\ state_file' = state_file
    /\ outputs' = outputs
    /\ archives' = archives

\* the ids of a batch
BatchIds(batch) == {batch[i].id : i \in 1..Len(batch)}

\* the ids of a batch that are not questions of the section named
\* section_id: all of them when there is no such section
NotOfSection(section_id, batch) ==
    IF section_id \in DOMAIN Sections.secs
    THEN BatchIds(batch) \ DOMAIN Sections.secs[section_id].questions
    ELSE BatchIds(batch)

\* C5 as claimed: a batch for a section that does not exist, or with an id
\* that is not a question of the section, is rejected with the error that
\* enumerates exactly the invalid ids, and nothing is stored
C5_Original ==
    [][ Called("save_section_answers")
        /\ (\/ result'.section_id \notin DOMAIN Sections.secs
            \/ NotOfSection(result'.section_id, result'.args.answers) # {})
        => /\ result'.kind = "invalid_ids"
           /\ {result'.invalid_ids[i] : i \in 1..Len(result'.invalid_ids)}
                 = NotOfSection(result'.section_id, result'.args.answers)
           /\ FilesUnchanged ]_vars

\* C5: a batch for a section that does not exist is rejected with the
\* section-not-found error; a batch for an existing section with an id that
\* is not a question of that section is rejected with the error that
\* enumerates exactly the invalid ids, each once; a rejected batch changes no
\* file; any other batch is stored whole and nothing else changes in answers
C5_AllOrNothing ==
    [][ Called("save_section_answers")
        => LET sid == result'.section_id
               batch == result'.args.answers
               bad == NotOfSection(sid, batch)
           IN /\ sid \notin DOMAIN Sections.secs
                 => result'.kind = "section_not_found" /\ FilesUnchanged
              /\ sid \in DOMAIN Sections.secs /\ bad # {}
                 => /\ result'.kind = "invalid_ids"
                    /\ {result'.invalid_ids[i] :
                          i \in 1..Len(result'.invalid_ids)} = bad
                    /\ Len(result'.invalid_ids) = Cardinality(bad)
                    /\ FilesUnchanged
              /\ sid \in DOMAIN Sections.secs /\ bad = {}
                 => /\ result'.kind = "saved"
                    /\ state_file' # <<>>
                    /\ DOMAIN state_file'[1].answers
                          = DOMAIN Answers \cup BatchIds(batch)
                    /\ \A i \in 1..Len(batch) :
                          state_file'[1].answers[batch[i].id].answer
                             = batch[i].answer
                    /\ \A q \in DOMAIN Answers \ BatchIds(batch) :
                          state_file'[1].answers[q] = Answers[q] ]_vars

\* a batch for S1 was rejected because of Q2.1, a question of S2, and its
\* valid Q1.1 was not stored
C5_Witness ==
    /\ result.op = "save_section_answers"
    /\ result.kind = "invalid_ids"
    /\ result.section_id = "S1"
    /\ result.invalid_ids = <<"Q2.1">>
    /\ "Q1.1" \in BatchIds(result.args.answers)
    /\ "Q1.1" \notin DOMAIN Answers

\* C6: a save_answer of a question directly after a save_answer of the same
\* question leaves exactly the new record under the question id, changes no
\* other field of the state but the update stamp, and reports the same
\* number of answered questions as the first save did
C6_LastWriteWins ==
    [][ Called("save_answer") /\ result'.kind = "saved"
        /\ SavedBefore(result'.question_id)
        => LET q == result'.question_id IN
           /\ state_file'[1].answers[q] =
                 [answer |-> result'.args.answer,
                  notes |-> result'.args.notes, timestamp |-> now]
           /\ DOMAIN state_file'[1].answers = DOMAIN Answers
           /\ \A o \in DOMAIN Answers \ {q} :
                 state_file'[1].answers[o] = Answers[o]
           /\ DOMAIN state_file'[1] = DOMAIN state_file[1]
           /\ \A k \in DOMAIN state_file[1] \ {"answers", "updated"} :
                 state_file'[1][k] = state_file[1][k]
           /\ result'.answered_count = result.answered_count
           /\ result'.answered_count
                 = Cardinality(DOMAIN state_file'[1].answers) ]_vars

\* Q1.1 was saved as Y directly after it had been saved as X
C6_Witness ==
    /\ result.op = "save_answer"
    /\ result.kind = "saved"
    /\ result.question_id = "Q1.1"
    /\ replaced = Some(X)
    /\ Answers["Q1.1"].answer = Y
    /\ result.answered_count = 1

\* C7: a reset of a state with at least one answer leaves an archive file
\* whose content is the state as it was before the reset, and a state file
\* with no answers and status "in_progress"
C7_ResetArchives ==
    [][ (\E op \in ResetOps : Called(op)) /\ DOMAIN Answers # {}
        => /\ \E k \in DOMAIN archives' : archives'[k] = state_file[1]
           /\ state_file' # <<>>
           /\ DOMAIN state_file'[1].answers = {}
           /\ state_file'[1].status = "in_progress" ]_vars

\* a completed governance assessment, with its report file name and both
\* required answers, is in the archive and the active state is empty
C7_Witness ==
    /\ agent = "gov"
    /\ result.op = "start_new_assessment"
    /\ DOMAIN Answers = {}
    /\ state_file # <<>>
    /\ \E k \in DOMAIN archives :
          /\ archives[k].status = "completed"
          /\ "report_file" \in DOMAIN archives[k]
          /\ DOMAIN archives[k].answers = {"Q1.1", "Q2.1"}

\* C8 as claimed: every reset that archives writes a file of its own, so
\* there are as many archive files as resets that archived
C8_ArchivesNeverOverwritten == Cardinality(DOMAIN archives) = resets

HomeSection(i) ==
    LET above == {j \in 1..(i - 1) :
                     doc[j].kind = "section" /\ doc[j].match}
    IN IF above = {} THEN None
       ELSE Some("S" \o doc[CHOOSE j \in above :
                              \A k \in above : k <= j].num)

\* line i is a well-formed header of question q
IsHeaderOf(i, q) ==
    doc[i].kind = "qheader" /\ doc[i].match /\ doc[i].id = q

\* C10 as claimed: in the outline of parse_questionnaire a question whose
\* header lines all come after a section header is only in a section that
\* is the home section of one of its header lines, never in a section
\* opened after it
C10_QuestionInOwnSection ==
    parsed # None /\ parsed[1].parser = "parse_questionnaire"
    => \A s \in DOMAIN parsed[1].sections.secs :
          \A q \in DOMAIN parsed[1].sections.secs[s].questions :
             (\A i \in 1..Len(doc) : IsHeaderOf(i, q) => HomeSection(i) # None)
             => \E i \in 1..Len(doc) :
                   IsHeaderOf(i, q) /\ HomeSection(i) = Some(s)

\* C11 as claimed: in the outline of parse_canvas every question is only in
\* a section that is the home section of one of its header lines, so a
\* question whose header comes before every section header is in no section
C11_CanvasQuestionInOwnSection ==
    parsed # None /\ parsed[1].parser = "parse_canvas"
    => \A s \in DOMAIN parsed[1].sections.secs :
          \A q \in DOMAIN parsed[1].sections.secs[s].questions :
             \E i \in 1..Len(doc) :
                IsHeaderOf(i, q) /\ HomeSection(i) = Some(s)

\* the question ids found in an outline
IdsOf(sections) ==
    UNION {DOMAIN sections.secs[s].questions : s \in DOMAIN sections.secs}

\* C12 as claimed: in every outline a parser returns no question id is in
\* two sections, and the question counts of the sections sum to the number
\* of distinct question ids
C12_EachIdInOneSection ==
    parsed # None
    => LET sections == parsed[1].sections IN
       /\ \A s, t \in DOMAIN sections.secs :
             s # t => DOMAIN sections.secs[s].questions
                         \cap DOMAIN sections.secs[t].questions = {}
       /\ TotalQuestions(sections) = Cardinality(IdsOf(sections))

\* the document without the field lines that follow a malformed "### Q"
\* header, up to the next section or question header
RECURSIVE StripDropped(_, _)
StripDropped(lines, dropping) ==
    IF lines = <<>> THEN <<>>
    ELSE LET line == Head(lines) IN
         IF line.kind \in {"section", "qheader"}
         THEN <<line>> \o StripDropped(Tail(lines),
                                       line.kind = "qheader" /\ ~line.match)
         ELSE IF dropping /\ line.kind # "other"
         THEN StripDropped(Tail(lines), TRUE)
         ELSE <<line>> \o StripDropped(Tail(lines), dropping)

\* C13 as claimed: the field lines that follow a malformed question header
\* change no question of the outline, that is, the outline is the one the
\* parser returns for the document without these lines, and every question
\* of the outline comes from a well-formed header
C13_MalformedHeaderDropped ==
    parsed # None
    => /\ parsed[1].sections =
             IF parsed[1].parser = "parse_questionnaire"
             THEN parse_questionnaire(StripDropped(doc, FALSE))
             ELSE parse_canvas(StripDropped(doc, FALSE))
       /\ \A q \in IdsOf(parsed[1].sections) :
             \E i \in 1..Len(doc) : IsHeaderOf(i, q)

----------------------------------------------------------------------------
(* The progress tools *)

\* total += n over the rows of the table
RECURSIVE Sum(_)
Sum(nums) == IF nums = <<>> THEN 0 ELSE Head(nums) + Sum(Tail(nums))

\* the table row with sect_req_answered counting every answered question
SectionRow_loose(sections, key, answered) ==
    LET questions == sections.secs[key].questions IN
    [section |-> key,
     name |-> sections.secs[key].name,
     sect_total |-> Cardinality(DOMAIN questions),
     sect_answered |->
        Cardinality({q \in DOMAIN questions : q \in answered}),
     sect_required |->
        Cardinality({q \in DOMAIN questions : questions[q].required}),
     sect_req_answered |->
        Cardinality({q \in DOMAIN questions : q \in answered})]

\* one pass of the "for section_id, section in sections.items()" loop of
\* get_assessment_progress / get_canvas_progress: the table row of a section
SectionRow(sections, key, answered) ==
    LET questions == sections.secs[key].questions IN
    [section |-> key,
     name |-> sections.secs[key].name,
     sect_total |-> Cardinality(DOMAIN questions),
     sect_answered |->
        Cardinality({q \in DOMAIN questions : q \in answered}),
     sect_required |->
        Cardinality({q \in DOMAIN questions : questions[q].required}),
     sect_req_answered |->
        Cardinality({q \in DOMAIN questions :
                        questions[q].required /\ q \in answered})]

\* the percentage rounded to the nearest integer
Percent_round(total_answered, total_questions) ==
    IF total_questions # 0
    THEN (100 * total_answered + total_questions \div 2) \div total_questions
    ELSE 0

\* 100*total_answered//total_questions if total_questions else 0
Percent(total_answered, total_questions) ==
    IF total_questions # 0
    THEN (100 * total_answered) \div total_questions
    ELSE 0

\* the "Unanswered Required Questions" loop
UnansweredRequired(sections, answered) ==
    LET miss == SelectSeq(AllQuestions(sections),
                    LAMBDA e : e.q.required /\ e.id \notin answered)
    IN [i \in 1..Len(miss) |->
          [id |-> miss[i].id, title |-> miss[i].q.title,
           section |-> sections.secs[miss[i].section].name]]

\* what get_assessment_progress / get_canvas_progress compute from the
\* outline and the loaded state
Progress(sections, state) ==
    LET answered == DOMAIN state.answers
        rows == [i \in 1..Len(sections.order) |->
                    SectionRow(sections, sections.order[i], answered)]
        total_questions == Sum([i \in 1..Len(rows) |-> rows[i].sect_total])
        total_answered == Sum([i \in 1..Len(rows) |-> rows[i].sect_answered])
        total_required == Sum([i \in 1..Len(rows) |-> rows[i].sect_required])
        required_answered ==
            Sum([i \in 1..Len(rows) |-> rows[i].sect_req_answered])
    IN [kind |-> "progress",
        created |-> state.created,
        status |-> state.status,
        rows |-> rows,
        total_questions |-> total_questions,
        total_answered |-> total_answered,
        total_required |-> total_required,
        required_answered |-> required_answered,
        pct |-> Percent(total_answered, total_questions),
        unanswered |-> IF required_answered < total_required
                       THEN Some(UnansweredRequired(sections, answered))
                       ELSE None]

\* get_assessment_progress()
get_assessment_progress ==
    /\ agent = "gov"
    /\ result' = [op |-> "get_assessment_progress"]
                    @@ Progress(questionnaire_sections(doc), load_assessment)
    /\ replaced' = None
    /\ UNCHANGED <<agent, doc, parsed, state_file, archives, outputs, now,
                   resets, calls, pending>>

\* get_canvas_progress()
get_canvas_progress ==
    /\ agent = "canvas"
    /\ result' = [op |-> "get_canvas_progress"]
                    @@ Progress(canvas_sections(doc), load_canvas)
    /\ replaced' = None
    /\ UNCHANGED <<agent, doc, parsed, state_file, archives, outputs, now,
                   resets, calls, pending>>

\* a blank answer
Blank == <<" ">>

\* (question_id, answer) of the save_answer calls
ProgressSaveInputs ==
    { <<"Q1.1", <<>> >>, <<"Q1.1", Blank>>, <<"Q1.2", X>>, <<"Q2.1", Blank>> }

\* the questionnaires the progress is computed for: no section; a section
\* without questions; a single optional question; a required and an optional
\* question; the questionnaire of the tools
ProgressDocs ==
    { <<>>,
      <<SectionLine("1", "General")>>,
      <<SectionLine("1", "General"), QuestionLine("Q1.2", "Sponsor"),
        RequiredLine("false")>>,
      <<SectionLine("1", "General"), QuestionLine("Q1.1", "Name"),
        QuestionLine("Q1.2", "Sponsor"), RequiredLine("false")>>,
      ToolDoc }

ProgressInit ==
    /\ agent \in {"gov", "canvas"}
    /\ doc \in ProgressDocs
    /\ InitFiles

ProgressNext ==
    \/ \E i \in ProgressSaveInputs : gov_save_answer(i[1], i[2], None)
    \/ \E i \in ProgressSaveInputs : canvas_save_answer(i[1], i[2], None)
    \/ get_assessment_progress
    \/ get_canvas_progress
    \/ generate_assessment_report(None, None)
    \/ generate_canvas_export("AIUC")

ProgressSpec == ProgressInit /\ [][ProgressNext]_vars

ProgressOps == {"get_assessment_progress", "get_canvas_progress"}

\* C14: the progress counters count a question as answered exactly when its
\* id is a key of answers, and a generation succeeds exactly when every
\* required id is a key of answers, whatever the answer texts are
C14_KeyIsTheSignal ==
    [][ /\ (\E op \in ProgressOps : Called(op))
           => /\ result'.total_answered
                    = Cardinality(OutlineIds \cap DOMAIN Answers)
              /\ result'.required_answered
                    = Cardinality(RequiredIds \cap DOMAIN Answers)
              /\ \A i \in 1..Len(result'.rows) :
                    result'.rows[i].sect_answered =
                       Cardinality(
                          DOMAIN Sections.secs[result'.rows[i].section].questions
                          \cap DOMAIN Answers)
        /\ (\E op \in GenerateOps : Called(op))
           => (result'.kind = "generated"
               <=> RequiredIds \subseteq DOMAIN Answers) ]_vars

\* a document was generated although the answer stored for a required
\* question is empty and the one for another is a blank
C14_Witness ==
    /\ result.op \in GenerateOps
    /\ result.kind = "generated"
    /\ \E q \in RequiredIds : Answers[q].answer = <<>>
    /\ \E q \in RequiredIds : Answers[q].answer = Blank

\* the column of a progress table
Column(rows, field) == [i \in 1..Len(rows) |-> rows[i][field]]

\* C15: the progress tools report totals that are the sums of the section
\* rows, each row counting the questions of its section, with answered <=
\* total and required-answered <= required <= total; the unanswered list is
\* shown exactly when required-answered < required and then holds exactly
\* the required questions whose id is not a key of answers, each once
C15_ProgressCounts ==
    [][ (\E op \in ProgressOps : Called(op))
        => LET r == result'
               missing == RequiredIds \ DOMAIN Answers
           IN /\ Len(r.rows) = Len(Sections.order)
              /\ \A i \in 1..Len(r.rows) :
                    LET questions ==
                           Sections.secs[Sections.order[i]].questions
                    IN /\ r.rows[i].section = Sections.order[i]
                       /\ r.rows[i].sect_total = Cardinality(DOMAIN questions)
                       /\ r.rows[i].sect_answered =
                             Cardinality(DOMAIN questions \cap DOMAIN Answers)
                       /\ r.rows[i].sect_required =
                             Cardinality(DOMAIN questions \cap RequiredIds)
                       /\ r.rows[i].sect_req_answered =
                             Cardinality(DOMAIN questions \cap RequiredIds
                                            \cap DOMAIN Answers)
              /\ r.total_questions = Sum(Column(r.rows, "sect_total"))
              /\ r.total_answered = Sum(Column(r.rows, "sect_answered"))
              /\ r.total_required = Sum(Column(r.rows, "sect_required"))
              /\ r.required_answered = Sum(Column(r.rows, "sect_req_answered"))
              /\ r.total_answered <= r.total_questions
              /\ r.required_answered <= r.total_required
              /\ r.total_required <= r.total_questions
              /\ (r.unanswered # None) <=> (r.required_answered < r.total_required)
              /\ (r.unanswered # None) <=> (missing # {})
              /\ r.unanswered # None
                 => /\ {r.unanswered[1][i].id : i \in 1..Len(r.unanswered[1])}
                          = missing
                    /\ Len(r.unanswered[1]) = Cardinality(missing) ]_vars

\* the progress of the tools' questionnaire with the optional question and
\* one required question answered: one required question is listed
C15_Witness ==
    /\ result.op \in ProgressOps
    /\ Len(result.rows) = 2
    /\ result.total_questions = 3
    /\ result.total_answered = 2
    /\ result.total_required = 2
    /\ result.required_answered = 1
    /\ result.unanswered # None
    /\ Len(result.unanswered[1]) = 1
    /\ result.unanswered[1][1].id = "Q1.1"

\* C16 as claimed: the percentage is 0 for an outline without questions,
\* floor(100 * answered / total) otherwise, always in 0..100, and 100 exactly
\* when every question of the outline is answered
C16_Original ==
    [][ (\E op \in ProgressOps : Called(op))
        => LET answered == Cardinality(OutlineIds \cap DOMAIN Answers)
               total == Cardinality(OutlineIds)
           IN /\ total = 0 => result'.pct = 0
              /\ total # 0 => /\ result'.pct * total <= 100 * answered
                              /\ 100 * answered < (result'.pct + 1) * total
              /\ result'.pct \in 0..100
              /\ result'.pct = 100 <=> OutlineIds \subseteq DOMAIN Answers ]_vars

\* C16: the percentage is 0 for an outline without questions; for an
\* outline with questions it is floor(100 * answered / total) and it is 100
\* exactly when every question is answered; it is always in 0..100
C16_Percent ==
    [][ (\E op \in ProgressOps : Called(op))
        => LET answered == Cardinality(OutlineIds \cap DOMAIN Answers)
               total == Cardinality(OutlineIds)
           IN /\ total = 0 => result'.pct = 0
              /\ total # 0 => /\ result'.pct * total <= 100 * answered
                              /\ 100 * answered < (result'.pct + 1) * total
              /\ result'.pct \in 0..100
              /\ result'.pct = 100
                 <=> (total # 0 /\ OutlineIds \subseteq DOMAIN Answers) ]_vars

\* the progress of a questionnaire that has a section and no question
C16_Witness ==
    /\ result.op \in ProgressOps
    /\ Len(result.rows) = 1
    /\ result.total_questions = 0
    /\ result.pct = 0

\* the persisted state is marked completed
Completed == state_file # <<>> /\ state_file[1].status = "completed"

\* the fields of the state a save leaves alone are as before
KeepsCompletion ==
    /\ state_file' # <<>>
    /\ state_file'[1].status = "completed"
    /\ DOMAIN state_file'[1] = DOMAIN state_file[1]
    /\ \A k \in DOMAIN state_file[1] \ {"answers", "updated"} :
          state_file'[1][k] = state_file[1][k]

\* C17: on a completed state a save_answer of a question of the outline and
\* a save_section_answers of questions of an existing section are accepted
\* and store their answers, the status stays "completed" and the recorded
\* file names stay as they are; a step that takes a completed state to
\* "in_progress" is a reset
C17_CompletionDoesNotBlock ==
    [][ Completed
        => /\ Called("save_answer") /\ result'.question_id \in OutlineIds
              => /\ result'.kind = "saved"
                 /\ state_file'[1].answers[result'.question_id].answer
                       = result'.args.answer
                 /\ KeepsCompletion
           /\ Called("save_section_answers")
              /\ result'.section_id \in DOMAIN Sections.secs
              /\ NotOfSection(result'.section_id, result'.args.answers) = {}
              => /\ result'.kind = "saved"
                 /\ \A i \in 1..Len(result'.args.answers) :
                       state_file'[1].answers[result'.args.answers[i].id].answer
                          = result'.args.answers[i].answer
                 /\ KeepsCompletion
           /\ (state_file' = <<>> \/ state_file'[1].status # "completed")
              => /\ \E op \in ResetOps : Called(op)
                 /\ state_file' # <<>>
                 /\ state_file'[1].status = "in_progress" ]_vars

\* after the governance report was generated, Q1.1 was saved again with
\* another answer: the state is completed and still records the report
C17_Witness ==
    /\ agent = "gov"
    /\ Completed
    /\ result.op = "save_answer"
    /\ result.kind = "saved"
    /\ "report_file" \in DOMAIN state_file[1]
    /\ state_file[1].report_file \in DOMAIN outputs
    /\ Answers["Q1.1"].answer # outputs[state_file[1].report_file].use_case

----------------------------------------------------------------------------
(* Long answers *)

\* an answer of n characters
TextOf(n) == [i \in 1..n |-> "a"]

\* the lengths of the answers: none, around the cut of the confirmation
\* message and well above it
AnswerLengths ==
    {0, ShownLen - 1, ShownLen, ShownLen + 1, ShownLen + 50}

MessageNext ==
    \/ \E q \in {"Q1.1", "Q2.1"}, n \in AnswerLengths :
          gov_save_answer(q, TextOf(n), None)
    \/ \E q \in {"Q1.1", "Q2.1"}, n \in AnswerLengths :
          canvas_save_answer(q, TextOf(n), None)

MessageSpec == Init /\ [][MessageNext]_vars

\* C18: the confirmation of a stored save_answer shows the whole answer when
\* it has at most 200 characters, and its first 200 characters followed by
\* "..." when it is longer; the state file holds the whole answer
C18_MessageTruncated ==
    [][ Called("save_answer") /\ result'.kind = "saved"
        => LET answer == result'.args.answer IN
           /\ state_file'[1].answers[result'.question_id].answer = answer
           /\ Len(answer) <= 200 => result'.answer = answer
           /\ Len(answer) > 200
              => /\ Len(result'.answer) = 203
                 /\ SubSeq(result'.answer, 1, 200) = SubSeq(answer, 1, 200)
                 /\ SubSeq(result'.answer, 201, 203) = <<".", ".", ".">> ]_vars

\* an answer of 250 characters was stored whole and shown cut
C18_Witness ==
    /\ result.op = "save_answer"
    /\ result.kind = "saved"
    /\ Len(result.args.answer) = 250
    /\ Len(result.answer) = 203
    /\ Len(Answers[result.question_id].answer) = 250

----------------------------------------------------------------------------
(* File names *)

\* titles are at most this long, but for LongTitle
MaxTitle == 3

\* letters of both cases, the characters the substitutions look for, and a
\* character a file name must not have
TitleChars == {"A", "b", " ", "-", "/", "_"}

\* a title longer than the base name may be, with a run and a separator in
\* the part that is kept
LongTitle == TextOf(SafeNameLen - 2) \o <<" ", "-", "B", "/", "c", "d">>

Titles ==
    UNION {[1..n -> TitleChars] : n \in 0..MaxTitle} \cup {LongTitle}

\* one document is generated: the canvas is started once, the report is
\* asked for until it is there
NameNext ==
    \/ \E q \in {"Q1.1", "Q2.1"} : gov_save_answer(q, X, None)
    \/ outputs = <<>> /\ \E t \in Titles :
                            generate_assessment_report(Some(t), None)
    \/ state_file = <<>> /\ \E t \in Titles : start_new_canvas(t)
    \/ \E q \in {"Q1.1", "Q2.1"} : canvas_save_answer(q, X, None)
    \/ generate_canvas_export("AIUC")

NameSpec == Init /\ [][NameNext]_vars

\* the base name as the naming policy describes it: of the lower-cased
\* title, the characters that are word characters, whitespace or hyphens;
\* each character outside a run stands for itself and each maximal run of
\* whitespace and hyphens for one underscore; at most 50 characters
PolicyName(title) ==
    LET kept == SelectSeq(LowerStr(title), LAMBDA c : ~IsRemoved(c))
        emits(i) == \/ ~IsSpaceOrHyphen(kept[i])
                    \/ i = 1
                    \/ ~IsSpaceOrHyphen(kept[i - 1])
        n == Cardinality({i \in 1..Len(kept) : emits(i)})
        at(k) == CHOOSE i \in 1..Len(kept) :
                    /\ emits(i)
                    /\ Cardinality({j \in 1..i : emits(j)}) = k
        whole == [k \in 1..n |->
                    IF IsSpaceOrHyphen(kept[at(k)]) THEN "_" ELSE kept[at(k)]]
    IN SubSeq(whole, 1, IF n < 50 THEN n ELSE 50)

\* the file names a successful generation returns
FilesOf(r) ==
    IF r.op = "generate_assessment_report" THEN {r.file}
    ELSE {r.markdown, r.jira_json}

\* C19: the base name of every generated file is the one the naming policy
\* gives for the title, has only word characters and at most 50 of them, and
\* the file name ends with the current date
C19_SafeName ==
    [][ (\E op \in GenerateOps : Called(op)) /\ result'.kind = "generated"
        => \A f \in FilesOf(result') :
              /\ f.safe_name = PolicyName(result'.use_case)
              /\ Len(f.safe_name) <= 50
              /\ \A i \in 1..Len(f.safe_name) : IsWord(f.safe_name[i])
              /\ f.date = DayOf(now)
              /\ f \in DOMAIN outputs' ]_vars

\* the report for the long title: the base name has 50 characters, the run
\* " -" became one underscore and the "/" is gone
C19_Witness ==
    /\ result.op \in GenerateOps
    /\ result.kind = "generated"
    /\ result.use_case = LongTitle
    /\ \A f \in FilesOf(result) :
          f.safe_name = TextOf(SafeNameLen - 2) \o <<"_", "b">>

----------------------------------------------------------------------------
(* Risk warnings of the governance report *)

\* a questionnaire with the questions the risk rules read, none required
RiskDoc ==
    << SectionLine("3", "Privacy"),
       QuestionLine("Q3.1", "Personal data"), RequiredLine("false"),
       QuestionLine("Q3.2", "Special category"), RequiredLine("false"),
       QuestionLine("Q3.8", "DPIA"), RequiredLine("false"),
       QuestionLine("Q4.1", "Classification"), RequiredLine("false"),
       QuestionLine("Q5.8", "Ethical review"), RequiredLine("false") >>

No == <<"N", "o">>
\* texts that hold the words the rules look for, and texts that do not
IsHighRisk == <<"A", ":", " ">> \o HighRisk \o <<"!">>
Limited == <<"L", "i", "m", "i", "t", "e", "d">>
NotStarted == Not \o <<" ", "y", "e", "t">>
YesAll == Yes \o <<",", " ", "a", "l", "l">>
\* "not" in lower case
LowerNot == <<"n", "o", "t", " ", "n", "o", "w">>

\* (question_id, answer) of the save_answer calls
RiskInputs ==
    { <<"Q4.1", IsHighRisk>>, <<"Q4.1", Unacceptable>>, <<"Q4.1", Limited>>,
      <<"Q3.1", Yes>>, <<"Q3.1", No>>,
      <<"Q3.2", YesAll>>,
      <<"Q3.8", NotStarted>>, <<"Q3.8", Uncertain>>, <<"Q3.8", LowerNot>>,
      <<"Q5.8", NotStarted>>, <<"Q5.8", Yes>> }

RiskInit ==
    /\ agent = "gov"
    /\ doc = RiskDoc
    /\ InitFiles

\* answers are saved and the report is generated once
RiskNext ==
    \/ \E i \in RiskInputs : gov_save_answer(i[1], i[2], None)
    \/ outputs = <<>> /\ generate_assessment_report(None, None)

RiskSpec == RiskInit /\ [][RiskNext]_vars

\* the text stored as the answer of a question holds one of the words
Holds(qid, words) ==
    /\ qid \in DOMAIN Answers
    /\ \E w \in words : Contains(w, Answers[qid].answer)

\* C20: the generated governance report has each warning line, once, exactly
\* when its rule holds on the stored answers; a question without a stored
\* answer gives no warning
C20_RiskLines ==
    [][ Called("generate_assessment_report") /\ result'.kind = "generated"
        => LET risks == outputs'[result'.file].risks
               lines == {risks[i] : i \in 1..Len(risks)}
           IN /\ Len(risks) = Cardinality(lines)
              /\ lines \subseteq {"EU AI Act", "Data Privacy",
                                  "Special Category Data", "DPIA", "Ethics"}
              /\ "EU AI Act" \in lines
                    <=> Holds("Q4.1", {HighRisk, Unacceptable})
              /\ "Data Privacy" \in lines <=> Holds("Q3.1", {Yes})
              /\ "Special Category Data" \in lines <=> Holds("Q3.2", {Yes})
              /\ "DPIA" \in lines <=> Holds("Q3.8", {Not, Uncertain})
              /\ "Ethics" \in lines <=> Holds("Q5.8", {Not}) ]_vars

\* a report with the EU AI Act and the DPIA lines and no other: Q4.1 holds
\* "High Risk" inside a longer text, Q3.8 is "Uncertain", Q3.1 is "No" and
\* Q3.2 and Q5.8 are not answered
C20_Witness ==
    /\ result.op = "generate_assessment_report"
    /\ result.kind = "generated"
    /\ outputs[result.file].risks = <<"EU AI Act", "DPIA">>
    /\ DOMAIN Answers = {"Q4.1", "Q3.8", "Q3.1"}
    /\ Answers["Q4.1"].answer = IsHighRisk
    /\ Answers["Q3.1"].answer = No

----------------------------------------------------------------------------
(* The data agent: query_database on the sample database *)

\* str.upper()
UpperChar(c) ==
    IF \E i \in 1..26 : LowerCase[i] = c
    THEN UpperCase[CHOOSE i \in 1..26 : LowerCase[i] = c]
    ELSE c

UpperStr(s) == [i \in 1..Len(s) |-> UpperChar(s[i])]

\* str.strip()
RECURSIVE StripStr(_)
StripStr(s) ==
    IF s # <<>> /\ IsSpace(Head(s)) THEN StripStr(Tail(s))
    ELSE IF s # <<>> /\ IsSpace(s[Len(s)])
         THEN StripStr(SubSeq(s, 1, Len(s) - 1))
    ELSE s

\* s.startswith(prefix)
StartsWith(prefix, s) ==
    Len(prefix) <= Len(s) /\ SubSeq(s, 1, Len(prefix)) = prefix

DigitChars == <<"0", "1", "2", "3", "4", "5", "6", "7", "8", "9">>

\* the decimal digits of a natural number
RECURSIVE FormatNat(_)
FormatNat(n) ==
    IF n < 10 THEN <<DigitChars[n + 1]>>
    ELSE FormatNat(n \div 10) \o <<DigitChars[(n % 10) + 1]>>

\* f"{limit}" of an int
FormatInt(n) == IF n < 0 THEN <<"-">> \o FormatNat(0 - n) ELSE FormatNat(n)

\* normalized.startswith("SELECT")
SELECT ==
    <<"S", "E", "L", "E", "C", "T">>

\* "LIMIT" not in normalized
LIMIT ==
    <<"L", "I", "M", "I", "T">>

\* f"{sql_query} LIMIT {limit}"
LimitClause ==
    <<" ", "L", "I", "M", "I", "T", " ">>

\* f"EXPLAIN QUERY PLAN {sql_query}"
ExplainPrefix ==
    <<"E", "X", "P", "L", "A", "I", "N", " ", "Q", "U", "E", "R", "Y", " ",
      "P", "L", "A", "N", " ">>

\* the keywords of the dangerous list without its last three
dangerous_sql ==
    << <<"I", "N", "S", "E", "R", "T">>,
       <<"U", "P", "D", "A", "T", "E">>,
       <<"D", "E", "L", "E", "T", "E">>,
       <<"D", "R", "O", "P">>,
       <<"A", "L", "T", "E", "R">>,
       <<"C", "R", "E", "A", "T", "E">>,
       <<"T", "R", "U", "N", "C", "A", "T", "E">>,
       <<"E", "X", "E", "C">>,
       <<"E", "X", "E", "C", "U", "T", "E">> >>

\* dangerous = [...]
dangerous ==
    << <<"I", "N", "S", "E", "R", "T">>,
       <<"U", "P", "D", "A", "T", "E">>,
       <<"D", "E", "L", "E", "T", "E">>,
       <<"D", "R", "O", "P">>,
       <<"A", "L", "T", "E", "R">>,
       <<"C", "R", "E", "A", "T", "E">>,
       <<"T", "R", "U", "N", "C", "A", "T", "E">>,
       <<"E", "X", "E", "C">>,
       <<"E", "X", "E", "C", "U", "T", "E">>,
       <<";", "-", "-">>,
       <<"A", "T", "T", "A", "C", "H">>,
       <<"D", "E", "T", "A", "C", "H">> >>

\* limit = min(limit, 1000)
MaxRows == 1000

\* the sales table of the sample database: for i in range(1, 501)
SalesRows == 500

Min(a, b) == IF a < b THEN a ELSE b

\* a statement reading the sales table
FromSales ==
    <<" ", "F", "R", "O", "M", " ", "S", "A", "L", "E", "S">>

\* SQLite: the integer literal of a LIMIT clause
IsIntLiteral(s) ==
    LET digits == IF s # <<>> /\ Head(s) = "-" THEN Tail(s) ELSE s
    IN digits # <<>> /\ \A i \in 1..Len(digits) : digits[i] \in Digits

RECURSIVE NatValue(_)
NatValue(s) ==
    IF s = <<>> THEN 0
    ELSE 10 * NatValue(SubSeq(s, 1, Len(s) - 1))
         + ((CHOOSE d \in 1..10 : DigitChars[d] = s[Len(s)]) - 1)

IntValue(s) == IF Head(s) = "-" THEN 0 - NatValue(Tail(s)) ELSE NatValue(s)

\* SQLite: the LIMIT clause that ends a statement, if it has one
LimitOf(statement) ==
    LET text == UpperStr(StripStr(statement))
        at == {i \in 1..Len(text) :
                 /\ i + Len(LimitClause) <= Len(text)
                 /\ SubSeq(text, i, i + Len(LimitClause) - 1) = LimitClause
                 /\ IsIntLiteral(SubSeq(text, i + Len(LimitClause),
                                        Len(text)))}
    IN IF at = {} THEN None
       ELSE LET i == CHOOSE j \in at : TRUE
            IN Some(IntValue(SubSeq(text, i + Len(LimitClause), Len(text))))

\* SQLite: how many rows a SELECT statement yields on the sample database;
\* a negative LIMIT is no limit
RowsOf(statement) ==
    LET all == IF Contains(FromSales, UpperStr(statement))
               THEN SalesRows ELSE 1
        clause == LimitOf(statement)
    IN IF clause = None \/ clause[1] < 0 THEN all
       ELSE Min(clause[1], all)

\* query_database(sql_query, limit, explain)
query_database(sql_query, limit, explain) ==
    LET normalized == UpperStr(StripStr(sql_query))
        args == [sql_query |-> sql_query, limit |-> limit,
                 explain |-> explain]
        found == {k \in 1..Len(dangerous) :
                     Contains(dangerous[k], normalized)}
        capped == Min(limit, MaxRows)
        statement == IF ~Contains(LIMIT, normalized)
                     THEN sql_query \o LimitClause \o FormatInt(capped)
                     ELSE sql_query
    IN /\ agent = "data"
       /\ result' =
            IF ~StartsWith(SELECT, normalized)
            THEN [op |-> "query_database", kind |-> "error",
                  error |-> "not_select", connections |-> 0,
                  executed |-> <<>>, args |-> args]
            ELSE IF found # {}
            THEN [op |-> "query_database", kind |-> "error",
                  error |-> "forbidden",
                  keyword |-> dangerous[CHOOSE k \in found :
                                           \A j \in found : k <= j],
                  connections |-> 0, executed |-> <<>>, args |-> args]
            ELSE [op |-> "query_database", kind |-> "rows",
                  connections |-> 1,
                  executed |-> (IF explain
                                THEN <<ExplainPrefix \o sql_query>>
                                ELSE <<>>) \o <<statement>>,
                  rows |-> RowsOf(statement), args |-> args]
       /\ UNCHANGED <<agent, doc, parsed, state_file, archives, outputs, now,
                      resets, calls, replaced, pending>>

SelectSales ==
    <<"S", "E", "L", "E", "C", "T", " ", "*", " ", "F", "R", "O", "M", " ",
      "s", "a", "l", "e", "s">>

\* lower case, with whitespace around
SelectPadded ==
    <<" ", " ", "s", "e", "l", "e", "c", "t", " ", "i", "d", " ", "f", "r",
      "o", "m", " ", "s", "a", "l", "e", "s", " ", "\n">>

\* with a LIMIT clause of its own
SelectLimit400 ==
    <<"S", "E", "L", "E", "C", "T", " ", "*", " ", "F", "R", "O", "M", " ",
      "s", "a", "l", "e", "s", " ", "L", "I", "M", "I", "T", " ", "4", "0",
      "0">>

SelectUnlimited ==
    <<"s", "e", "l", "e", "c", "t", " ", "*", " ", "f", "r", "o", "m", " ",
      "s", "a", "l", "e", "s", " ", "l", "i", "m", "i", "t", " ", "-", "1">>

\* the word inside a column alias
SelectLimited ==
    <<"S", "E", "L", "E", "C", "T", " ", "i", "d", " ", "A", "S", " ", "l",
      "i", "m", "i", "t", "e", "d", " ", "F", "R", "O", "M", " ", "s", "a",
      "l", "e", "s">>

DropSales ==
    <<"D", "R", "O", "P", " ", "T", "A", "B", "L", "E", " ", "s", "a", "l",
      "e", "s">>

\* a forbidden keyword inside a column name
SelectDeleted ==
    <<"s", "e", "l", "e", "c", "t", " ", "d", "e", "l", "e", "t", "e", "d",
      " ", "f", "r", "o", "m", " ", "s", "a", "l", "e", "s">>

SelectComment ==
    <<"S", "E", "L", "E", "C", "T", " ", "1", ";", "-", "-", "x">>

Queries ==
    {SelectSales, SelectPadded, SelectLimit400, SelectUnlimited, SelectLimited,
     DropSales, SelectDeleted, SelectComment}

\* limit arguments: negative, zero, the default and around the maximum
Limits == {-1, 0, 1, 100, 400, 999, 1000, 1001}

DataInit ==
    /\ agent = "data"
    /\ doc = <<>>
    /\ InitFiles

DataNext ==
    \E q \in Queries, limit \in Limits, explain \in BOOLEAN :
        query_database(q, limit, explain)

DataSpec == DataInit /\ [][DataNext]_vars

\* C21: an accepted query returns at most min(limit, 1000) rows
C21_RowsBounded ==
    result.op = "query_database" /\ result.kind = "rows"
        => result.rows <= Min(result.args.limit, MaxRows)

\* the claim's test of a query text
Forbidden ==
    {dangerous_sql[k] : k \in 1..Len(dangerous_sql)}
        \cup {<<";", "-", "-">>,
              <<"A", "T", "T", "A", "C", "H">>,
              <<"D", "E", "T", "A", "C", "H">>}

ReadOnlyQuery(sql_query) ==
    LET text == UpperStr(StripStr(sql_query))
    IN /\ StartsWith(SELECT, text)
       /\ \A w \in Forbidden : ~Contains(w, text)

\* C22: query_database opens a connection and executes statements only for
\* a query whose trimmed, upper-cased text starts with SELECT and holds no
\* forbidden keyword; any other query gets an error and no connection
C22_ReadOnly ==
    result.op = "query_database"
        => IF ReadOnlyQuery(result.args.sql_query)
           THEN result.kind = "rows" /\ result.connections = 1
           ELSE /\ result.kind = "error"
                /\ result.connections = 0
                /\ result.executed = <<>>

\* "SELECT 1;--x" was rejected for ";--" without a connection
C22_Witness ==
    /\ result.op = "query_database"
    /\ result.args.sql_query = SelectComment
    /\ result.kind = "error"
    /\ result.error = "forbidden"
    /\ result.keyword = <<";", "-", "-">>
    /\ result.connections = 0

----------------------------------------------------------------------------
(* Parsing again *)

\* a later run of the agent's parser that also creates the state file, as
\* a save of the loaded state would
Reparse_init ==
    LET sections == IF agent = "gov" THEN questionnaire_sections(doc)
                    ELSE canvas_sections(doc)
    IN /\ agent \in {"gov", "canvas"}
       /\ parsed # None
       /\ result' = [op |-> "parse", kind |-> "outline",
                     sections |-> sections]
       /\ state_file' = IF agent = "gov" THEN save_assessment(load_assessment)
                        ELSE save_canvas(load_canvas)
       /\ UNCHANGED <<agent, doc, parsed, archives, outputs, now, resets,
                      calls, replaced, pending>>

\* a later run of the agent's parser on the document, after the first run
\* has been recorded in parsed
Reparse ==
    LET sections == IF agent = "gov" THEN questionnaire_sections(doc)
                    ELSE canvas_sections(doc)
    IN /\ agent \in {"gov", "canvas"}
       /\ parsed # None
       /\ result' = [op |-> "parse", kind |-> "outline",
                     sections |-> sections]
       /\ UNCHANGED <<agent, doc, parsed, state_file, archives, outputs, now,
                      resets, calls, replaced, pending>>

\* the document is parsed before the first tool call, the tools save, reset
\* and generate, and the document is parsed again at any point
ReparseNext ==
    \/ agent = "gov" /\ state_file = <<>> /\ ParseQuestionnaire
    \/ agent = "canvas" /\ state_file = <<>> /\ ParseCanvas
    \/ Reparse
    \/ \E i \in ProgressSaveInputs : gov_save_answer(i[1], i[2], None)
    \/ \E i \in ProgressSaveInputs : canvas_save_answer(i[1], i[2], None)
    \/ generate_assessment_report(None, None)
    \/ generate_canvas_export("AIUC")
    \/ start_new_assessment
    \/ \E u \in CanvasNames : start_new_canvas(u)

ReparseSpec == ProgressInit /\ [][ReparseNext]_vars

----------------------------------------------------------------------------
(* Two tool calls at once: each call's load and its writes are steps of    *)
(* their own                                                               *)

\* the two invocations that run side by side
Invocations == {"a", "b"}

Returned(p) == p \in DOMAIN pending /\ pending[p].phase = "returned"

\* save_answer up to and including load_assessment() and the validation
save_answer_load(p, question_id, answer, notes) ==
    LET sections == questionnaire_sections(doc)
        found == FindQuestion(sections, question_id)
    IN /\ agent = "gov"
       /\ p \notin DOMAIN pending
       /\ IF found = None
          THEN /\ result' = [op |-> "save_answer", kind |-> "not_found",
                             question_id |-> question_id, invocation |-> p]
               /\ pending' = Put(pending, p,
                                 [op |-> "save_answer", phase |-> "returned",
                                  kind |-> "not_found",
                                  assessment |-> load_assessment])
          ELSE /\ pending' = Put(pending, p,
                                 [op |-> "save_answer", phase |-> "loaded",
                                  kind |-> "saved",
                                  assessment |-> load_assessment,
                                  question_id |-> question_id,
                                  answer |-> answer, notes |-> notes])
               /\ UNCHANGED result
       /\ UNCHANGED <<agent, doc, parsed, state_file, archives, outputs, now,
                      resets, calls, replaced>>

\* the rest of save_answer on a state loaded again just before the write
save_answer_write_fresh(p) ==
    /\ agent = "gov"
    /\ p \in DOMAIN pending
    /\ pending[p].op = "save_answer" /\ pending[p].phase = "loaded"
    /\ calls < MaxCalls /\ calls' = calls + 1
    /\ LET call == pending[p]
           saved == [load_assessment EXCEPT !.answers =
                        Put(load_assessment.answers, call.question_id,
                            AnswerRecord(call.answer, call.notes))]
       IN /\ state_file' = save_assessment(saved)
          /\ result' = [op |-> "save_answer", kind |-> "saved",
                        question_id |-> call.question_id, invocation |-> p,
                        answered_count |-> Cardinality(DOMAIN saved.answers)]
    /\ pending' = [pending EXCEPT ![p].phase = "returned"]
    /\ replaced' = None
    /\ UNCHANGED <<agent, doc, parsed, archives, outputs, now, resets>>

\* the rest of save_answer: the answer goes into the dict loaded earlier,
\* save_assessment writes that dict, the message is returned
save_answer_write(p) ==
    /\ agent = "gov"
    /\ p \in DOMAIN pending
    /\ pending[p].op = "save_answer" /\ pending[p].phase = "loaded"
    /\ calls < MaxCalls /\ calls' = calls + 1
    /\ LET call == pending[p]
           saved == [call.assessment EXCEPT !.answers =
                        Put(call.assessment.answers, call.question_id,
                            AnswerRecord(call.answer, call.notes))]
       IN /\ state_file' = save_assessment(saved)
          /\ result' = [op |-> "save_answer", kind |-> "saved",
                        question_id |-> call.question_id, invocation |-> p,
                        answered_count |-> Cardinality(DOMAIN saved.answers)]
    /\ pending' = [pending EXCEPT ![p].phase = "returned"]
    /\ replaced' = None
    /\ UNCHANGED <<agent, doc, parsed, archives, outputs, now, resets>>

\* generate_assessment_report saving the completed status and the file name
\* right after the check, before the report is written
report_load_status_first(p) ==
    LET sections == questionnaire_sections(doc)
        assessment == load_assessment
        missing_required == MissingRequired(sections, assessment.answers)
        report_filename ==
            [prefix |-> "assessment",
             safe_name |-> SafeName(AnswerOr(assessment.answers, "Q1.1",
                                             Unnamed)),
             date |-> DayOf(now), ext |-> "md"]
    IN /\ agent = "gov"
       /\ p \notin DOMAIN pending
       /\ missing_required = <<>>
       /\ state_file' = save_assessment(
              Put(Put(assessment, "status", "completed"),
                  "report_file", report_filename))
       /\ pending' = Put(pending, p,
                         [op |-> "generate_assessment_report",
                          phase |-> "loaded", kind |-> "generated",
                          assessment |-> assessment])
       /\ UNCHANGED <<agent, doc, parsed, archives, outputs, now, result,
                      resets, calls, replaced>>

\* generate_assessment_report up to the check of the required questions
report_load(p) ==
    LET sections == questionnaire_sections(doc)
        assessment == load_assessment
        missing_required == MissingRequired(sections, assessment.answers)
    IN /\ agent = "gov"
       /\ p \notin DOMAIN pending
       /\ IF missing_required # <<>>
          THEN /\ result' = [op |-> "generate_assessment_report",
                             kind |-> "cannot_generate",
                             missing |-> missing_required, invocation |-> p]
               /\ pending' = Put(pending, p,
                                 [op |-> "generate_assessment_report",
                                  phase |-> "returned",
                                  kind |-> "cannot_generate",
                                  assessment |-> assessment])
          ELSE /\ pending' = Put(pending, p,
                                 [op |-> "generate_assessment_report",
                                  phase |-> "loaded", kind |-> "generated",
                                  assessment |-> assessment])
               /\ UNCHANGED result
       /\ UNCHANGED <<agent, doc, parsed, state_file, archives, outputs, now,
                      resets, calls, replaced>>

\* generate_assessment_report from the check to report_path.write_text
report_write(p) ==
    /\ agent = "gov"
    /\ p \in DOMAIN pending
    /\ pending[p].op = "generate_assessment_report"
    /\ pending[p].phase = "loaded"
    /\ LET sections == questionnaire_sections(doc)
           answers == pending[p].assessment.answers
           name == AnswerOr(answers, "Q1.1", Unnamed)
           report == [use_case |-> name,
                      assessment_date |-> MinuteOf(now),
                      assessor |-> NotSpecified,
                      sections |-> ReportBody(sections, answers),
                      risks |-> RiskLines(answers)]
           report_filename == [prefix |-> "assessment",
                               safe_name |-> SafeName(name),
                               date |-> DayOf(now), ext |-> "md"]
       IN /\ outputs' = Put(outputs, report_filename, report)
          /\ pending' = [pending EXCEPT ![p] =
                            Put(Put(@, "phase", "written"),
                                "report_file", report_filename)]
    /\ UNCHANGED <<agent, doc, parsed, state_file, archives, now, result,
                   resets, calls, replaced>>

\* generate_assessment_report from the status update to the return
report_save(p) ==
    /\ agent = "gov"
    /\ p \in DOMAIN pending
    /\ pending[p].op = "generate_assessment_report"
    /\ pending[p].phase = "written"
    /\ calls < MaxCalls /\ calls' = calls + 1
    /\ state_file' = save_assessment(
           Put(Put(pending[p].assessment, "status", "completed"),
               "report_file", pending[p].report_file))
    /\ result' = [op |-> "generate_assessment_report", kind |-> "generated",
                  file |-> pending[p].report_file, invocation |-> p]
    /\ pending' = [pending EXCEPT ![p].phase = "returned"]
    /\ replaced' = None
    /\ UNCHANGED <<agent, doc, parsed, archives, outputs, now, resets>>

\* (question_id, answer) of the calls: the three questions and an unknown id
RaceInputs == {<<"Q1.1", X>>, <<"Q1.2", Y>>, <<"Q2.1", X>>, <<"Q9.9", X>>}

RaceInit ==
    /\ agent = "gov"
    /\ doc = ToolDoc
    /\ InitFiles

\* calls one after the other first, then the two invocations side by side,
\* each one call
RaceNext ==
    \/ pending = <<>> /\ \E i \in {<<"Q1.1", X>>, <<"Q2.1", X>>} :
                            gov_save_answer(i[1], i[2], None)
    \/ \E p \in Invocations, i \in RaceInputs :
          save_answer_load(p, i[1], i[2], None)
    \/ \E p \in Invocations : save_answer_write(p)
    \/ \E p \in Invocations : report_load(p)
    \/ \E p \in Invocations : report_write(p)
    \/ \E p \in Invocations : report_save(p)

RaceSpec == RaceInit /\ [][RaceNext]_vars

\* invocation p loaded the state before q wrote question qid
LoadedWithout(p, qid) == qid \notin DOMAIN pending[p].assessment.answers

\* save_answer call p has written
Saved(p) ==
    /\ Returned(p)
    /\ pending[p].op = "save_answer"
    /\ pending[p].kind = "saved"

\* C24: of two save_answer calls for different questions that both loaded
\* the state before either wrote, the state file has the answer of the one
\* that wrote last and not the other's; and a save_answer whose write falls
\* between the load and the save of a report generation is not in the state
\* file the generation leaves
C24_LostUpdate ==
    \A p \in Invocations, q \in Invocations :
        /\ p # q /\ Saved(p) /\ Returned(q)
        /\ result.invocation = q
        /\ LoadedWithout(q, pending[p].question_id)
        => /\ Saved(q)
              /\ pending[q].question_id # pending[p].question_id
              /\ LoadedWithout(p, pending[q].question_id)
              => /\ pending[p].question_id \notin DOMAIN Answers
                 /\ pending[q].question_id \in DOMAIN Answers
                 /\ Answers[pending[q].question_id].answer
                       = pending[q].answer
           /\ pending[q].op = "generate_assessment_report"
              /\ pending[q].kind = "generated"
              => /\ pending[p].question_id \notin DOMAIN Answers
                 /\ state_file[1].status = "completed"

\* both invocations saved on an empty state: b, for Q2.1, wrote last, and
\* the answer to Q1.1 that a saved is gone
C24_Witness ==
    /\ Saved("a") /\ Saved("b")
    /\ pending["a"].question_id = "Q1.1"
    /\ pending["b"].question_id = "Q2.1"
    /\ pending["a"].assessment.answers = <<>>
    /\ pending["b"].assessment.answers = <<>>
    /\ result.invocation = "b"
    /\ DOMAIN Answers = {"Q2.1"}

\* a report generation loaded the state, a save_answer for Q1.2 then loaded
\* and wrote, and the generation's save left a completed state without Q1.2
RaceReportStraddle ==
    /\ Saved("b") /\ Returned("a")
    /\ pending["a"].op = "generate_assessment_report"
    /\ pending["a"].kind = "generated"
    /\ pending["b"].question_id = "Q1.2"
    /\ result.invocation = "a"
    /\ DOMAIN Answers = {"Q1.1", "Q2.1"}
    /\ state_file[1].status = "completed"

----------------------------------------------------------------------------
(* Options and type *)

\* C25: in every outline a parser returns, a question with an options list
\* has type "choice", in whatever order its **Options:** and **Type:** lines
\* stand
C25_OptionsForceChoice ==
    parsed # None
    => \A s \in DOMAIN parsed[1].sections.secs :
          \A q \in DOMAIN parsed[1].sections.secs[s].questions :
             LET question == parsed[1].sections.secs[s].questions[q]
             IN question.options # None => question.type = "choice"

----------------------------------------------------------------------------
(* The generation tools step by step: load, write the documents, save the  *)
(* status                                                                  *)

\* generate_canvas_export up to the check of the required questions
export_load(p) ==
    LET sections == canvas_sections(doc)
        canvas == load_canvas
        missing_required == MissingRequired(sections, canvas.answers)
    IN /\ agent = "canvas"
       /\ p \notin DOMAIN pending
       /\ IF missing_required # <<>>
          THEN /\ result' = [op |-> "generate_canvas_export",
                             kind |-> "cannot_generate",
                             missing |-> missing_required, invocation |-> p]
               /\ pending' = Put(pending, p,
                                 [op |-> "generate_canvas_export",
                                  phase |-> "returned",
                                  kind |-> "cannot_generate",
                                  canvas |-> canvas])
          ELSE /\ pending' = Put(pending, p,
                                 [op |-> "generate_canvas_export",
                                  phase |-> "loaded", kind |-> "generated",
                                  canvas |-> canvas])
               /\ UNCHANGED result
       /\ UNCHANGED <<agent, doc, parsed, state_file, archives, outputs, now,
                      resets, calls, replaced>>

\* generate_canvas_export from the check to the two write_text calls
export_write(p, project_key) ==
    /\ agent = "canvas"
    /\ p \in DOMAIN pending
    /\ pending[p].op = "generate_canvas_export"
    /\ pending[p].phase = "loaded"
    /\ LET sections == canvas_sections(doc)
           canvas == pending[p].canvas
           answers == canvas.answers
           use_case_name == IF "use_case_name" \in DOMAIN canvas
                            THEN canvas.use_case_name ELSE Unnamed
           compliance_flags == ExportFlags(answers)
           md_export == [use_case |-> use_case_name,
                         generated |-> MinuteOf(now),
                         sections |-> CanvasBody(sections, answers),
                         compliance_flags |-> compliance_flags]
           jira_epic == [project |-> project_key,
                         issuetype |-> "Epic",
                         summary |-> use_case_name,
                         description |-> JiraDescription(answers),
                         labels |-> JiraLabels(answers),
                         generated |-> MinuteOf(now),
                         use_case_name |-> use_case_name,
                         total_questions_answered |->
                             Cardinality(DOMAIN answers),
                         compliance_flags |-> compliance_flags]
           md_filename == [prefix |-> "canvas",
                           safe_name |-> SafeName(use_case_name),
                           date |-> DayOf(now), ext |-> "md"]
           json_filename == [prefix |-> "jira_epic",
                             safe_name |-> SafeName(use_case_name),
                             date |-> DayOf(now), ext |-> "json"]
       IN /\ outputs' = Put(Put(outputs, md_filename, md_export),
                            json_filename, jira_epic)
          /\ pending' = [pending EXCEPT ![p] =
                            Put(Put(@, "phase", "written"),
                                "export_files",
                                [markdown |-> md_filename,
                                 jira_json |-> json_filename])]
    /\ UNCHANGED <<agent, doc, parsed, state_file, archives, now, result,
                   resets, calls, replaced>>

\* generate_canvas_export from the status update to the return
export_save(p) ==
    /\ agent = "canvas"
    /\ p \in DOMAIN pending
    /\ pending[p].op = "generate_canvas_export"
    /\ pending[p].phase = "written"
    /\ calls < MaxCalls /\ calls' = calls + 1
    /\ state_file' = save_canvas(
           Put(Put(pending[p].canvas, "status", "completed"),
               "export_files", pending[p].export_files))
    /\ result' = [op |-> "generate_canvas_export", kind |-> "generated",
                  markdown |-> pending[p].export_files.markdown,
                  jira_json |-> pending[p].export_files.jira_json,
                  invocation |-> p]
    /\ pending' = [pending EXCEPT ![p].phase = "returned"]
    /\ replaced' = None
    /\ UNCHANGED <<agent, doc, parsed, archives, outputs, now, resets>>

\* no call is between its load and its return
Idle == \A p \in DOMAIN pending : pending[p].phase = "returned"

\* the tools that write, one call at a time; one generation per agent is
\* followed through its steps
StagedNext ==
    \/ Idle /\ \E i \in SaveInputs : gov_save_answer(i[1], i[2], None)
    \/ Idle /\ start_new_assessment
    \/ Idle /\ report_load("a")
    \/ report_write("a")
    \/ report_save("a")
    \/ Idle /\ \E i \in SaveInputs : canvas_save_answer(i[1], i[2], None)
    \/ Idle /\ \E i \in SectionInputs : save_section_answers(i[1], i[2])
    \/ Idle /\ \E u \in CanvasNames : start_new_canvas(u)
    \/ Idle /\ export_load("a")
    \/ export_write("a", "AIUC")
    \/ export_save("a")

StagedSpec == Init /\ [][StagedNext]_vars

\* C26: whenever the state file says "completed", every required question
\* of the outline is a key of its answers and the report or export files it
\* names are there, also between the steps of a generation
C26_CompletedMeans ==
    state_file # <<>> /\ state_file[1].status = "completed"
    => /\ RequiredIds \subseteq DOMAIN Answers
       /\ agent = "gov" => /\ "report_file" \in DOMAIN state_file[1]
                           /\ state_file[1].report_file \in DOMAIN outputs
       /\ agent = "canvas"
          => /\ "export_files" \in DOMAIN state_file[1]
             /\ state_file[1].export_files.markdown \in DOMAIN outputs
             /\ state_file[1].export_files.jira_json \in DOMAIN outputs

\* a completed governance state that has taken one more answer after the
\* report was written
C26_Witness ==
    /\ agent = "gov"
    /\ state_file # <<>>
    /\ state_file[1].status = "completed"
    /\ state_file[1].report_file \in DOMAIN outputs
    /\ RequiredIds \subseteq DOMAIN Answers
    /\ "Q1.2" \in DOMAIN Answers
    /\ result.op = "save_answer"
    /\ Returned("a")

----------------------------------------------------------------------------
(* The tools that only read *)

\* the loop of load_questionnaire / get_canvas_overview over the sections
Overview(sections, state) ==
    LET answered == DOMAIN state.answers
        rows == [i \in 1..Len(sections.order) |->
                   LET sec == sections.secs[sections.order[i]]
                       section_answered ==
                           Cardinality(DOMAIN sec.questions \cap answered)
                       total == Cardinality(DOMAIN sec.questions)
                   IN [section |-> sections.order[i], name |-> sec.name,
                       questions |-> total,
                       answered |-> section_answered,
                       status_icon |->
                           IF section_answered = total THEN "Complete"
                           ELSE IF section_answered > 0 THEN "In Progress"
                           ELSE "Not Started",
                       items |-> [j \in 1..Len(sec.qorder) |->
                                    [id |-> sec.qorder[j],
                                     checked |-> sec.qorder[j] \in answered,
                                     required |->
                                        sec.questions[sec.qorder[j]].required]]]]
    IN [kind |-> "overview", rows |-> rows,
        total_questions |-> Sum([i \in 1..Len(rows) |-> rows[i].questions]),
        total_answered |-> Sum([i \in 1..Len(rows) |-> rows[i].answered])]

\* load_questionnaire()
load_questionnaire ==
    /\ agent = "gov"
    /\ result' = [op |-> "load_questionnaire"]
                    @@ Overview(questionnaire_sections(doc), load_assessment)
    /\ replaced' = None
    /\ UNCHANGED <<agent, doc, parsed, state_file, archives, outputs, now,
                   resets, calls, pending>>

\* get_canvas_overview()
get_canvas_overview ==
    /\ agent = "canvas"
    /\ result' = [op |-> "get_canvas_overview",
                  use_case |-> load_canvas.use_case_name,
                  status |-> load_canvas.status]
                    @@ Overview(canvas_sections(doc), load_canvas)
    /\ replaced' = None
    /\ UNCHANGED <<agent, doc, parsed, state_file, archives, outputs, now,
                   resets, calls, pending>>

\* get_section that saves the state it has loaded
get_section_saving(section_id) ==
    /\ agent = "canvas"
    /\ result' = [op |-> "get_section", kind |-> "section_not_found",
                  section_id |-> section_id]
    /\ state_file' = save_canvas(load_canvas)
    /\ replaced' = None
    /\ UNCHANGED <<agent, doc, parsed, archives, outputs, now, resets,
                   calls, pending>>

\* get_section(section_id)
get_section(section_id) ==
    LET normalized == IF StartsWithS(section_id) THEN section_id
                      ELSE "S" \o section_id
        sections == canvas_sections(doc)
        answers == load_canvas.answers
    IN /\ agent = "canvas"
       /\ result' =
            IF normalized \notin DOMAIN sections.secs
            THEN [op |-> "get_section", kind |-> "section_not_found",
                  section_id |-> normalized]
            ELSE LET section == sections.secs[normalized]
                 IN [op |-> "get_section", kind |-> "section",
                     section_id |-> normalized,
                     number |-> section.number, name |-> section.name,
                     items |->
                        [j \in 1..Len(section.qorder) |->
                           LET qid == section.qorder[j]
                               current_answer ==
                                  IF qid \in DOMAIN answers
                                  THEN Some(answers[qid].answer) ELSE None
                           IN [id |-> qid,
                               title |-> section.questions[qid].title,
                               required |-> section.questions[qid].required,
                               options |-> section.questions[qid].options,
                               \* if current_answer: ... else:
                               \* "*Not yet answered*"
                               current_answer |->
                                  IF current_answer # None
                                     /\ current_answer[1] # <<>>
                                  THEN current_answer ELSE None]]]
       /\ replaced' = None
       /\ UNCHANGED <<agent, doc, parsed, state_file, archives, outputs, now,
                      resets, calls, pending>>

\* get_current_answers / get_canvas_answers: the answered questions of the
\* sections the filter lets through
CurrentAnswers(sections, state, section_filter) ==
    IF DOMAIN state.answers = {}
    THEN [kind |-> "no_answers"]
    ELSE LET shown == SelectSeq(sections.order,
                         LAMBDA k :
                            /\ section_filter = None
                               \/ section_filter[1] = ""
                               \/ sections.secs[k].number = section_filter[1]
                            /\ DOMAIN sections.secs[k].questions
                                  \cap DOMAIN state.answers # {})
         IN [kind |-> "answers",
             rows |-> [i \in 1..Len(shown) |->
                         LET sec == sections.secs[shown[i]]
                             ids == SelectSeq(sec.qorder,
                                       LAMBDA q : q \in DOMAIN state.answers)
                         IN [number |-> sec.number, name |-> sec.name,
                             answers |->
                                [j \in 1..Len(ids) |->
                                   [id |-> ids[j],
                                    answer |-> state.answers[ids[j]].answer,
                                    notes |-> state.answers[ids[j]].notes]]]]]

\* get_current_answers(section_filter)
get_current_answers(section_filter) ==
    /\ agent = "gov"
    /\ result' = [op |-> "get_current_answers"]
                    @@ CurrentAnswers(questionnaire_sections(doc),
                                      load_assessment, section_filter)
    /\ replaced' = None
    /\ UNCHANGED <<agent, doc, parsed, state_file, archives, outputs, now,
                   resets, calls, pending>>

\* get_canvas_answers(section_filter)
get_canvas_answers(section_filter) ==
    /\ agent = "canvas"
    /\ result' = [op |-> "get_canvas_answers",
                  use_case |-> load_canvas.use_case_name]
                    @@ CurrentAnswers(canvas_sections(doc), load_canvas,
                                      section_filter)
    /\ replaced' = None
    /\ UNCHANGED <<agent, doc, parsed, state_file, archives, outputs, now,
                   resets, calls, pending>>

Confidential ==
    <<"C", "o", "n", "f", "i", "d", "e", "n", "t", "i", "a", "l">>

FullAutomation ==
    <<"F", "u", "l", "l", " ", "A", "u", "t", "o", "m", "a", "t", "i", "o",
      "n">>

\* the flags of assess_compliance_flags, in the order appended
AssessFlags(answers) ==
    LET personal_data == AnswerOr(answers, "Q6.1", <<>>)
        special_category == AnswerOr(answers, "Q6.2", <<>>)
        dpia_required == AnswerOr(answers, "Q6.3", <<>>)
        data_classification == AnswerOr(answers, "Q7.1", <<>>)
        ai_risk == AnswerOr(answers, "Q8.1", <<>>)
        human_oversight == AnswerOr(answers, "Q8.2", <<>>)
    IN (IF Contains(Yes, personal_data) \/ Contains(Uncertain, personal_data)
        THEN <<"Personal data processing identified">> ELSE <<>>)
       \o (IF Contains(Yes, special_category)
           THEN <<"Special category data (sensitive) processing">>
           ELSE <<>>)
       \o (IF Contains(Yes, dpia_required)
              \/ Contains(Uncertain, dpia_required)
           THEN <<"DPIA likely required">> ELSE <<>>)
       \o (IF Contains(Confidential, data_classification)
           THEN <<"High data sensitivity">> ELSE <<>>)
       \o (IF Contains(High, ai_risk)
           THEN <<"EU AI Act HIGH RISK classification">> ELSE <<>>)
       \o (IF Contains(Unacceptable, ai_risk)
           THEN <<"EU AI Act UNACCEPTABLE RISK - Prohibited use case">>
           ELSE <<>>)
       \o (IF Contains(Uncertain, ai_risk)
           THEN <<"EU AI Act classification uncertain">> ELSE <<>>)
       \o (IF Contains(FullAutomation, human_oversight)
              /\ (Contains(High, ai_risk) \/ Contains(Uncertain, ai_risk))
           THEN <<"Full automation with elevated AI risk">> ELSE <<>>)

\* assess_compliance_flags()
assess_compliance_flags ==
    LET canvas == load_canvas
        flags == AssessFlags(canvas.answers)
        has(f) == \E i \in 1..Len(flags) : flags[i] = f
    IN /\ agent = "canvas"
       /\ result' =
            [op |-> "assess_compliance_flags",
             use_case |-> canvas.use_case_name,
             flags |-> flags,
             concern |->
                IF has("EU AI Act UNACCEPTABLE RISK - Prohibited use case")
                THEN "HIGH"
                ELSE IF has("EU AI Act HIGH RISK classification")
                        \/ has("Special category data (sensitive) processing")
                THEN "ELEVATED"
                ELSE IF flags # <<>> THEN "MODERATE" ELSE "LOW"]
       /\ replaced' = None
       /\ UNCHANGED <<agent, doc, parsed, state_file, archives, outputs, now,
                      resets, calls, pending>>

\* section_filter / section_id arguments
SectionFilters == {None, Some(""), Some("1"), Some("7")}

\* the tools that read, between saves and resets
ReadNext ==
    \/ \E i \in ProgressSaveInputs : gov_save_answer(i[1], i[2], None)
    \/ load_questionnaire
    \/ \E q \in QuestionIds : gov_get_question(q)
    \/ get_assessment_progress
    \/ \E f \in SectionFilters : get_current_answers(f)
    \/ \E i \in ProgressSaveInputs : canvas_save_answer(i[1], i[2], None)
    \/ \E u \in CanvasNames : start_new_canvas(u)
    \/ get_canvas_overview
    \/ \E s \in {"1", "S2", "S7"} : get_section(s)
    \/ \E q \in QuestionIds : canvas_get_question(q)
    \/ get_canvas_progress
    \/ \E f \in SectionFilters : get_canvas_answers(f)
    \/ assess_compliance_flags

ReadSpec == Init /\ [][ReadNext]_vars

\* the op names of the tools that read
ReadOps ==
    {"load_questionnaire", "get_canvas_overview", "get_section",
     "get_question", "get_assessment_progress", "get_canvas_progress",
     "get_current_answers", "get_canvas_answers", "assess_compliance_flags"}

\* C27: a call of a reading tool leaves the state file as it was, missing if
\* it was missing, and creates no archive and no output file
C27_ReadersWriteNothing ==
    [][ (\E op \in ReadOps : Called(op))
        => /\ state_file' = state_file
           /\ archives' = archives
           /\ outputs' = outputs ]_vars

\* get_section has shown section S1 and there is still no state file
C27_Witness ==
    /\ result.op = "get_section"
    /\ result.kind = "section"
    /\ result.items # <<>>
    /\ state_file = <<>>
    /\ archives = <<>>
    /\ outputs = <<>>

----------------------------------------------------------------------------
(* The title of the generated documents *)

\* C28: the title a generation tool puts into the heading and the file name
\* is never the empty string
C28_TitleNotEmpty ==
    result.op \in GenerateOps /\ result.kind = "generated"
    => result.use_case # <<>>

----------------------------------------------------------------------------
(* Compliance flags of the canvas: the assessment and the export *)

\* a canvas with the questions the flags read, none required
FlagDoc ==
    << SectionLine("6", "Data Privacy"),
       QuestionLine("Q6.1", "Personal data"), RequiredLine("false"),
       QuestionLine("Q6.2", "Special category"), RequiredLine("false"),
       SectionLine("8", "EU AI Act"),
       QuestionLine("Q8.1", "Risk class"), RequiredLine("false") >>

\* (question_id, answer) of the save_answer calls: the option texts alone
\* and inside a longer answer
FlagInputs ==
    { <<"Q6.1", Yes>>, <<"Q6.1", YesAll>>, <<"Q6.1", Uncertain>>,
      <<"Q6.1", No>>,
      <<"Q6.2", Yes>>, <<"Q6.2", YesAll>>,
      <<"Q8.1", High>>, <<"Q8.1", IsHighRisk>>, <<"Q8.1", Unacceptable>>,
      <<"Q8.1", Limited>> }

FlagInit ==
    /\ agent = "canvas"
    /\ doc = FlagDoc
    /\ InitFiles

\* answers are saved, the export is generated once on them, and the
\* assessment is asked for at any time
FlagNext ==
    \/ outputs = <<>> /\ \E i \in FlagInputs :
                            canvas_save_answer(i[1], i[2], None)
    \/ outputs = <<>> /\ generate_canvas_export("AIUC")
    \/ assess_compliance_flags

FlagSpec == FlagInit /\ [][FlagNext]_vars

\* the flags of the markdown export the state file names
Exported ==
    LET flags == outputs[state_file[1].export_files.markdown].compliance_flags
    IN {flags[i].flag : i \in 1..Len(flags)}

\* C29: on the same stored answers the export lists "Personal data
\* involved", "Special category data" and an "EU AI Act" flag exactly when
\* assess_compliance_flags raises the personal-data flag, the
\* special-category flag and the HIGH RISK or UNACCEPTABLE RISK flag
C29_FlagsAgree ==
    /\ result.op = "assess_compliance_flags"
    /\ state_file # <<>>
    /\ state_file[1].status = "completed"
    => LET raised == {result.flags[i] : i \in 1..Len(result.flags)}
       IN /\ "Personal data involved" \in Exported
                <=> "Personal data processing identified" \in raised
          /\ "Special category data" \in Exported
                <=> "Special category data (sensitive) processing" \in raised
          /\ "EU AI Act" \in Exported
                <=> \/ "EU AI Act HIGH RISK classification" \in raised
                    \/ "EU AI Act UNACCEPTABLE RISK - Prohibited use case"
                          \in raised

----------------------------------------------------------------------------
(* What the canvas shows as answered *)

\* C30: get_question and get_section of the ideation agent show a question
\* as not yet answered exactly when its id is not a key of answers, which is
\* when get_canvas_progress and get_canvas_overview count it as unanswered
C30_DisplayAgreesWithCount ==
    agent = "canvas"
    => /\ result.op = "get_question" /\ result.kind = "question"
          => (result.current_answer = None
                 <=> result.question_id \notin DOMAIN Answers)
       /\ result.op = "get_section" /\ result.kind = "section"
          => \A i \in 1..Len(result.items) :
                result.items[i].current_answer = None
                   <=> result.items[i].id \notin DOMAIN Answers
       /\ result.op = "get_canvas_overview"
          => \A i \in 1..Len(result.rows) :
                \A j \in 1..Len(result.rows[i].items) :
                   result.rows[i].items[j].checked
                      <=> result.rows[i].items[j].id \in DOMAIN Answers

====
